---- MODULE Spec2Model ----
(***************************************************************************)
(* A model of the PAI Slack bridge: the session registry (sessions.json),  *)
(* the debounced MessageUpdater, the stream event processor of             *)
(* handleMessage, the interactive prompt handling of app.action and the    *)
(* splitForSlack chunker.  Each component has its own specification over   *)
(* the shared variables; the variables of the other components stay at     *)
(* their initial values.                                                   *)
(***************************************************************************)
EXTENDS Integers, Sequences, FiniteSets, TLC

\* ------------------------------------------------------------------ bounds
Threads == {"C1:100", "C1:200"}
Users == {"U1"}
HandlerIds == {"h1", "h2"}
MaxTime == 2
MaxUuid == 2
MaxRestarts == 1

MaxClock == 6
MaxTimers == 2
MaxEdits == 4
MaxCalls == 4

MaxQuestions == 10
MaxClicks == 4

MaxEvents == 4
MaxLen == 6
MaxChunk == 4
\* stream framing
MaxReads == 3
MaxChunkLen == 2
\* updateMessage
MaxUpdates == 4

\* ------------------------------------------------------- program constants
\* MAX_SLACK_MESSAGE_LENGTH
MaxSlackMessageLength == 3500

\* MessageUpdater minIntervalMs (500 ms), in clock units of the model
MinInterval == 2

\* cleanupOldSessions(24): the idle limit, in clock units of the model
MaxAgeHours == 1

VARIABLES
    sessionsFile,   \* content of sessions.json: the set of SessionMapping
    now,            \* Date.now(), in clock units
    uuidCount,      \* number of randomUUID() values drawn so far
    hpc,            \* per handler task: "idle" or "streaming"
    hthread,        \* per handler task: the threadKey it serves
    hsession,       \* per handler task: the sessionId getOrCreateSession returned
    hisNew,         \* per handler task: the isNew getOrCreateSession returned
    hgen,           \* per handler task: evicted[threadKey] when it resolved
    hafterFail,     \* per handler task: its session had a failed invocation before
    hafterRestart,  \* per handler task: its session was created before the last restart
    epoch,          \* number of process restarts so far
    evicted,        \* per threadKey: how often cleanupOldSessions removed it
    created,        \* per threadKey: the sessionId created since its last eviction
    createdEpoch,   \* per threadKey: the epoch in which that session was created
    newCount,       \* per threadKey: isNew results since its last eviction
    failed,         \* per threadKey: an invocation failed since its last eviction
    lookupResult    \* threadKey of the last getSessionBySessionId result

hVars == <<hpc, hthread, hsession, hisNew, hgen, hafterFail, hafterRestart>>
ghostVars == <<evicted, created, createdEpoch, newCount, failed>>
regVars == <<sessionsFile, now, uuidCount, hVars, epoch, ghostVars, lookupResult>>

VARIABLES
    pendingText,    \* MessageUpdater.pendingText
    lastUpdateTime, \* MessageUpdater.lastUpdateTime
    updateTimer,    \* MessageUpdater.updateTimer: a timer handle, or NoTimer
    scheduled,      \* timers the runtime holds: [id, due]
    inflight,       \* chat.update calls awaiting the platform: [id, text, timer]
    clock,          \* Date.now() as the updater reads it
    timerCount,     \* setTimeout calls so far
    editCount,      \* chat.update calls so far
    callCount,      \* onTextUpdate calls so far
    updPhase,       \* where handleMessage is with the updater: "streaming",
                    \* "finalized" (the final text is in the live message),
                    \* "catch" (the catch block has flushed) or "cleaned"
    lastSentAt,     \* clock of the latest chat.update call
    prevSentAt,     \* clock of the chat.update call before it
    fresh,          \* no onTextUpdate call since lastUpdateTime was assigned
    wCalls,         \* onTextUpdate calls since the first one after the last edit
    wLate,          \* one of them came when minInterval had already elapsed
    wSent,          \* chat.update calls since then
    wSentText,      \* text of the latest chat.update call
    callText        \* text of the latest onTextUpdate call

updState == <<pendingText, lastUpdateTime, updateTimer, scheduled, inflight,
              clock, timerCount, editCount, callCount, updPhase>>
updGhost == <<lastSentAt, prevSentAt, fresh, wCalls, wLate, wSent, wSentText,
              callText>>
updVars == <<updState, updGhost>>

VARIABLES
    pendingSelections, \* index.ts pendingSelections: threadKey -> button values
    prompt,            \* per threadKey: question count of the prompt posted, 0: none
    lastAction,        \* what the last run of the app.action handler (or the
                       \* last rejection of a message) did
    chosen,            \* per threadKey and question: label clicked last since
                       \* the last Submit or message of the thread
    chosenAtSubmit,    \* chosen[threadKey] when Submit was clicked last
    clickCount         \* button clicks so far

promptVars == <<pendingSelections, prompt, lastAction, chosen, chosenAtSubmit,
                clickCount>>

VARIABLES
    spc,              \* handleMessage: "posted", "streaming", "done",
                      \* "failed" (catch block ran) or "thrown"
    eventCount,       \* stream events consumed so far
    currentTurnText,  \* handleMessage local currentTurnText
    currentTurnSrc,   \* number of the event currentTurnText came from
    turnCount,        \* handleMessage local turnCount
    lastEventWasTool, \* handleMessage local lastEventWasTool
    askedQuestions,   \* handleMessage local askedQuestions
    costUsd,          \* handleMessage local costUsd
    thread,           \* messages posted to the thread, in order
    liveText,         \* what the live status message shows
    askSeen,          \* AskUserQuestion blocks (with questions) seen in the stream
    exitCode,         \* exit code of the subprocess, known when the stream ends
    stderrSeen,       \* the subprocess wrote to stderr
    turnTexts,        \* texts of the text events since the last tool or user event
    userBoundary,     \* the first user event that found text pending
    lastEvent         \* kind and text of the event consumed last

streamVars == <<spc, eventCount, currentTurnText, currentTurnSrc, turnCount,
                lastEventWasTool, askedQuestions, costUsd, thread, liveText,
                askSeen, exitCode, stderrSeen, turnTexts, userBoundary,
                lastEvent>>

VARIABLES
    splitText,      \* the processedText finalize has to deliver
    splitMax,       \* the maxLength handed to splitForSlack
    chunks,         \* what splitForSlack returned
    posted,         \* the chunks postMessage has sent so far
    splitLive       \* what finalize has written into the live status message

splitVars == <<splitText, splitMax, chunks, posted, splitLive>>

VARIABLES
    fpc,            \* executeClaudeStreaming: "reading" or "ended"
    buffer,         \* executeClaudeStreaming local buffer
    yielded,        \* what the generator has yielded so far, in order
    received,       \* every character read from stdout so far
    reads           \* reader.read() calls that returned a chunk

frameVars == <<fpc, buffer, yielded, received, reads>>

VARIABLES
    upc,            \* updateMessage: "idle", "first" (awaiting chat.update),
                    \* "retry" (awaiting the second chat.update), "returned"
                    \* or "thrown"
    utext,          \* processedText of the call
    usent,          \* the texts handed to chat.update by the call, in order
    ufirst,         \* what the platform answered to the first chat.update
    uerror,         \* the error the call has thrown to its caller
    ucalls          \* updateMessage calls so far

editVars == <<upc, utext, usent, ufirst, uerror, ucalls>>

VARIABLES
    ioResult,       \* the last registry operation run with file I/O that may
                    \* fail: what it was called with and what it returned
    held            \* per threadKey: the sessionId the last resolve returned,
                    \* NoSession once a sweep has found the session expired

ioVars == <<ioResult, held>>

VARIABLES
    activeSession,      \* FileWatcher.activeSession: the thread files are
                        \* attributed to, NoActive for null
    pendingFilesQueue,  \* the module-level queue of detected files
    seenFiles,          \* FileWatcher.seenFiles
    detecting,          \* file events past the active-session test, waiting
                        \* out the write delay
    wpc,                \* per thread: where its invocation stands
    uploads,            \* per thread: the files its invocation handed to
                        \* uploadFilesToThread, each with the thread it is
                        \* attributed to
    writer              \* per file: the thread whose subprocess wrote it

watchVars == <<activeSession, pendingFilesQueue, seenFiles, detecting, wpc,
               uploads, writer>>

VARIABLES
    allowedUsers,   \* ALLOWED_USERS, parsed from BRIDGE_ALLOWED_USERS
    invoked,        \* the handleMessage calls made: the user and the event
                    \* that caused each
    bridgePosts,    \* the messages the bridge posted: the user whose event
                    \* caused each
    controls        \* the rendered interactive prompts: where each is shown
                    \* and whose invocation rendered it

gateVars == <<allowedUsers, invoked, bridgePosts, controls>>

VARIABLES
    hour,           \* the wall clock, in hours since the epoch day began
    hourlyBuckets,  \* usage.json: per clock hour, the requests recorded
    dailyRequests,  \* usage.json: per day, the channel's requests recorded
    rpc,            \* per inbound message: where its handleMessage stands
    startHour,      \* per inbound message: the clock hour its invocation
                    \* started in, NoHour while it has none
    rateSessions    \* the inbound messages getOrCreateSession was called for

rateVars == <<hour, hourlyBuckets, dailyRequests, rpc, startHour, rateSessions>>

VARIABLES
    ppc,            \* where the handleMessage call of the thread stands
                    \* between getOrCreateSession and the end of the stream
    spawnLog        \* the subprocesses spawned so far, in order: the
                    \* sessionId each was given and how (--session-id or
                    \* --resume)

protoVars == <<ppc, spawnLog>>

VARIABLES
    runs            \* the runs of text-only assistant events so far: the
                    \* number and the text of each run's last event

turnVars == <<runs>>

VARIABLES
    reactPhase,     \* per thread: where its invocation stands after the
                    \* stream loop was entered
    reactions,      \* per thread: the bridge's reactions on the user's message
    reactAsked      \* per thread: askedQuestions when the stream ended

reactVars == <<reactPhase, reactions, reactAsked>>

vars == <<regVars, updVars, promptVars, streamVars, splitVars, frameVars,
          editVars, ioVars, watchVars, gateVars, rateVars, protoVars, turnVars, reactVars>>

\* what the actions of one component leave alone
notReg == <<updVars, promptVars, streamVars, splitVars, frameVars, editVars, ioVars, watchVars, gateVars, rateVars, protoVars, turnVars, reactVars>>
\* what a registry step taken with the spawn protocol leaves alone
notRegistry == <<updVars, promptVars, streamVars, splitVars, frameVars, editVars,
    ioVars, watchVars, gateVars, rateVars, turnVars, reactVars>>
notUpd == <<regVars, promptVars, streamVars, splitVars, frameVars, editVars, ioVars, watchVars, gateVars, rateVars, protoVars, turnVars, reactVars>>
notPrompt == <<regVars, updVars, streamVars, splitVars, frameVars, editVars, ioVars, watchVars, gateVars, rateVars, protoVars, turnVars, reactVars>>
notStream == <<regVars, updVars, promptVars, splitVars, frameVars, editVars, ioVars, watchVars, gateVars, rateVars, protoVars, turnVars, reactVars>>
notStreamTurn == <<regVars, updVars, promptVars, splitVars, frameVars, editVars,
    ioVars, watchVars, gateVars, rateVars, protoVars, reactVars>>
notSplit == <<regVars, updVars, promptVars, streamVars, frameVars, editVars, ioVars, watchVars, gateVars, rateVars, protoVars, turnVars, reactVars>>
notFrame == <<regVars, updVars, promptVars, streamVars, splitVars, editVars, ioVars, watchVars, gateVars, rateVars, protoVars, turnVars, reactVars>>
notEdit == <<regVars, updVars, promptVars, streamVars, splitVars, frameVars,
            ioVars, watchVars, gateVars, rateVars, protoVars, turnVars, reactVars>>
notIo == <<updVars, promptVars, streamVars, splitVars, frameVars, editVars, watchVars, gateVars, rateVars, protoVars, turnVars, reactVars>>
notWatch == <<regVars, updVars, promptVars, streamVars, splitVars, frameVars,
             editVars, ioVars, gateVars, rateVars, protoVars, turnVars, reactVars>>
notGate == <<regVars, updVars, promptVars, streamVars, splitVars, frameVars,
            editVars, ioVars, watchVars, rateVars, protoVars, turnVars, reactVars>>
notRate == <<regVars, updVars, promptVars, streamVars, splitVars, frameVars,
    editVars, ioVars, watchVars, gateVars, protoVars, turnVars, reactVars>>
notProto == <<regVars, updVars, promptVars, streamVars, splitVars, frameVars,
    editVars, ioVars, watchVars, gateVars, rateVars, turnVars, reactVars>>
notTurn == <<regVars, updVars, promptVars, streamVars, splitVars, frameVars,
    editVars, ioVars, watchVars, gateVars, rateVars, protoVars, reactVars>>
notReact == <<regVars, updVars, promptVars, streamVars, splitVars, frameVars,
    editVars, ioVars, watchVars, gateVars, rateVars, protoVars, turnVars>>

\* no sessionId (undefined)
NoSession == 0

\* getSessionBySessionId found nothing (null)
NoMapping == [key |-> "null"]

\* ------------------------------------------------------- session registry
\* a lookup that never finds the key
HasKeyNever(sessions, key) == FALSE

\* store.sessions[key] !== undefined
HasKey(sessions, key) == \E m \in sessions : m.key = key

\* store.sessions[key]
Lookup(sessions, key) == CHOOSE m \in sessions : m.key = key

\* an assignment that keeps the previous entry of the key
SetEntryKeepOld(sessions, key, mapping) == sessions \cup {mapping}

\* store.sessions[key] = mapping
SetEntry(sessions, key, mapping) ==
    {m \in sessions : m.key # key} \cup {mapping}

\* loadSessions(): the parsed content of sessions.json
loadSessions(file) == file

\* a save that never reaches the file
saveSessionsDropped(file, store) == file

\* saveSessions(store): sessions.json is overwritten with the store
saveSessions(file, store) == store

\* sessionKey(channelId, threadTs) is the threadKey itself
getOrCreateSession(file, key, userId, t, uuid) ==
    LET store == loadSessions(file) IN
    IF HasKey(store, key)
    THEN LET s == [Lookup(store, key) EXCEPT !.lastActivity = t] IN
         [file |-> saveSessions(file, SetEntry(store, key, s)),
          session |-> s, isNew |-> FALSE]
    ELSE LET s == [key |-> key, sessionId |-> uuid, userId |-> userId,
                   createdAt |-> t, lastActivity |-> t] IN
         [file |-> saveSessions(file, SetEntry(store, key, s)),
          session |-> s, isNew |-> TRUE]

\* updateSessionActivity(channelId, threadTs)
updateSessionActivity(file, key, t) ==
    LET store == loadSessions(file) IN
    IF HasKey(store, key)
    THEN saveSessions(file,
           SetEntry(store, key, [Lookup(store, key) EXCEPT !.lastActivity = t]))
    ELSE file

\* a lookup that returns a session of the store without comparing ids
getSessionFirst(file, sid) ==
    LET store == loadSessions(file) IN
    IF store # {} THEN (CHOOSE m \in store : TRUE) ELSE NoMapping

\* getSessionBySessionId(sessionId): the mapping, or NoSession
getSessionBySessionId(file, sid) ==
    LET store == loadSessions(file) IN
    IF \E m \in store : m.sessionId = sid
    THEN (CHOOSE m \in store : m.sessionId = sid)
    ELSE NoMapping

\* handleSendMessage for a body with sessionId and text: the status of the
\* response and the thread chat.postMessage was called for
handleSendMessage(file, sid, postOk) ==
    LET session == getSessionBySessionId(file, sid) IN
    IF session = NoMapping THEN [status |-> "404", thread |-> "none"]
    ELSE [status |-> IF postOk THEN "200" ELSE "500", thread |-> session.key]

\* the entries deleted when activity at the cutoff counts as too old
ExpiredInclusive(store, t, maxAge) ==
    {m \in store : m.lastActivity <= t - maxAge}

\* the entries cleanupOldSessions(maxAgeHours) deletes
Expired(store, t, maxAge) == {m \in store : m.lastActivity < t - maxAge}

\* cleanupOldSessions(maxAgeHours): the file afterwards
cleanupOldSessions(file, t, maxAge) ==
    LET store == loadSessions(file)
        removed == Expired(store, t, maxAge) IN
    IF Cardinality(removed) > 0 THEN saveSessions(file, store \ removed) ELSE file

\* cleanupOldSessions(maxAgeHours): the value returned
cleanupOldSessionsResult(file, t, maxAge) ==
    Cardinality(Expired(loadSessions(file), t, maxAge))

RegInit ==
    /\ sessionsFile = {}
    /\ now = 0
    /\ uuidCount = 0
    /\ hpc = [h \in HandlerIds |-> "idle"]
    /\ hthread = [h \in HandlerIds |-> "none"]
    /\ hsession = [h \in HandlerIds |-> NoSession]
    /\ hisNew = [h \in HandlerIds |-> FALSE]
    /\ hgen = [h \in HandlerIds |-> 0]
    /\ hafterFail = [h \in HandlerIds |-> FALSE]
    /\ hafterRestart = [h \in HandlerIds |-> FALSE]
    /\ epoch = 0
    /\ evicted = [k \in Threads |-> 0]
    /\ created = [k \in Threads |-> NoSession]
    /\ createdEpoch = [k \in Threads |-> 0]
    /\ newCount = [k \in Threads |-> 0]
    /\ failed = [k \in Threads |-> FALSE]
    /\ lookupResult = "null"

\* handler h holds a getOrCreateSession result for a thread that has not
\* been evicted since
Holds(h) == hpc[h] = "streaming" /\ hgen[h] = evicted[hthread[h]]

\* the task of handler h is over: its locals are gone
HandlerGone(h) ==
    /\ hpc' = [hpc EXCEPT ![h] = "idle"]
    /\ hthread' = [hthread EXCEPT ![h] = "none"]
    /\ hsession' = [hsession EXCEPT ![h] = NoSession]
    /\ hisNew' = [hisNew EXCEPT ![h] = FALSE]
    /\ hgen' = [hgen EXCEPT ![h] = 0]
    /\ hafterFail' = [hafterFail EXCEPT ![h] = FALSE]
    /\ hafterRestart' = [hafterRestart EXCEPT ![h] = FALSE]

\* handleMessage from getOrCreateSession to its first suspension: what it
\* does to the registry and to the invocation
ResolveSession(h, key, user) ==
    /\ hpc[h] = "idle"
    /\ uuidCount < MaxUuid
    /\ LET r == getOrCreateSession(sessionsFile, key, user, now, uuidCount + 1)
           sid == r.session.sessionId IN
       /\ sessionsFile' = r.file
       /\ uuidCount' = IF r.isNew THEN uuidCount + 1 ELSE uuidCount
       /\ hsession' = [hsession EXCEPT ![h] = sid]
       /\ hisNew' = [hisNew EXCEPT ![h] = r.isNew]
       /\ hafterFail' = [hafterFail EXCEPT ![h] = failed[key]]
       /\ hafterRestart' = [hafterRestart EXCEPT ![h] =
                               created[key] # NoSession /\ createdEpoch[key] < epoch]
       /\ created' = IF r.isNew THEN [created EXCEPT ![key] = sid] ELSE created
       /\ createdEpoch' = IF r.isNew THEN [createdEpoch EXCEPT ![key] = epoch]
                          ELSE createdEpoch
       /\ newCount' = IF r.isNew THEN [newCount EXCEPT ![key] = @ + 1] ELSE newCount
    /\ hpc' = [hpc EXCEPT ![h] = "streaming"]
    /\ hthread' = [hthread EXCEPT ![h] = key]
    /\ hgen' = [hgen EXCEPT ![h] = evicted[key]]
    /\ UNCHANGED <<now, epoch, evicted, failed, lookupResult>>

\* handleMessage up to its first suspension: getOrCreateSession runs
\* synchronously with the arrival of the inbound event
HandleMessageResolve(h, key, user) ==
    /\ ResolveSession(h, key, user)
    /\ UNCHANGED notReg

\* the invocation ends normally (try block runs to its end)
InvocationDone(h) ==
    /\ hpc[h] = "streaming"
    /\ HandlerGone(h)
    /\ UNCHANGED <<sessionsFile, now, uuidCount, epoch, ghostVars, lookupResult>>
    /\ UNCHANGED notReg

\* the invocation fails (subprocess or platform error): the catch block
\* reports the error and leaves the registry alone
InvocationFailed(h) ==
    /\ hpc[h] = "streaming"
    /\ HandlerGone(h)
    /\ failed' = IF Holds(h) THEN [failed EXCEPT ![hthread[h]] = TRUE] ELSE failed
    /\ UNCHANGED <<sessionsFile, now, uuidCount, epoch, evicted, created,
                   createdEpoch, newCount, lookupResult>>
    /\ UNCHANGED notReg

\* updateSessionActivity, called for a thread
Touch(key) ==
    /\ sessionsFile' = updateSessionActivity(sessionsFile, key, now)
    /\ sessionsFile' # sessionsFile
    /\ UNCHANGED <<now, uuidCount, hVars, epoch, ghostVars, lookupResult>>
    /\ UNCHANGED notReg

\* getSessionBySessionId, called by the bridge API: a pure read
FindBySessionId(sid) ==
    /\ lookupResult' = getSessionBySessionId(sessionsFile, sid).key
    /\ lookupResult' # lookupResult
    /\ UNCHANGED <<sessionsFile, now, uuidCount, hVars, epoch, ghostVars>>
    /\ UNCHANGED notReg

\* the hourly setInterval callback
Sweep ==
    /\ sessionsFile' = cleanupOldSessions(sessionsFile, now, MaxAgeHours)
    /\ sessionsFile' # sessionsFile
    /\ LET gone(k) == HasKey(sessionsFile, k) /\ ~HasKey(sessionsFile', k) IN
       /\ evicted' = [k \in Threads |-> IF gone(k) THEN evicted[k] + 1 ELSE evicted[k]]
       /\ created' = [k \in Threads |-> IF gone(k) THEN NoSession ELSE created[k]]
       /\ createdEpoch' = [k \in Threads |-> IF gone(k) THEN 0 ELSE createdEpoch[k]]
       /\ newCount' = [k \in Threads |-> IF gone(k) THEN 0 ELSE newCount[k]]
       /\ failed' = [k \in Threads |-> IF gone(k) THEN FALSE ELSE failed[k]]
    /\ UNCHANGED <<now, uuidCount, hVars, epoch, lookupResult>>
    /\ UNCHANGED notReg

\* the clock advances
Tick ==
    /\ now < MaxTime
    /\ now' = now + 1
    /\ UNCHANGED <<sessionsFile, uuidCount, hVars, epoch, ghostVars, lookupResult>>
    /\ UNCHANGED notReg

\* the process exits and is started again: every task is gone, the file stays
Restart ==
    /\ epoch < MaxRestarts
    /\ epoch' = epoch + 1
    /\ hpc' = [h \in HandlerIds |-> "idle"]
    /\ hthread' = [h \in HandlerIds |-> "none"]
    /\ hsession' = [h \in HandlerIds |-> NoSession]
    /\ hisNew' = [h \in HandlerIds |-> FALSE]
    /\ hgen' = [h \in HandlerIds |-> 0]
    /\ hafterFail' = [h \in HandlerIds |-> FALSE]
    /\ hafterRestart' = [h \in HandlerIds |-> FALSE]
    /\ UNCHANGED <<sessionsFile, now, uuidCount, ghostVars, lookupResult>>
    /\ UNCHANGED notReg

RegNext ==
    \/ \E h \in HandlerIds, k \in Threads, u \in Users : HandleMessageResolve(h, k, u)
    \/ \E h \in HandlerIds : InvocationDone(h)
    \/ \E h \in HandlerIds : InvocationFailed(h)
    \/ \E k \in Threads : Touch(k)
    \/ \E sid \in 1..MaxUuid : FindBySessionId(sid)
    \/ Sweep
    \/ Tick
    \/ Restart

\* --------------------------------------------------------- MessageUpdater
\* updateTimer === null
NoTimer == 0

\* the texts extractText hands to the updater: trimmed and not empty
Texts == {<<"a">>, <<"b">>}

\* whitespace, as String.prototype.trim sees it
IsSpace(c) == c \in {" ", "\n"}

RECURSIVE TrimStart(_)
TrimStart(str) ==
    IF Len(str) > 0 /\ IsSpace(Head(str)) THEN TrimStart(Tail(str)) ELSE str

RECURSIVE TrimEnd(_)
TrimEnd(str) ==
    IF Len(str) > 0 /\ IsSpace(str[Len(str)])
    THEN TrimEnd(SubSeq(str, 1, Len(str) - 1)) ELSE str

\* str.trim()
Trim(str) == TrimEnd(TrimStart(str))

\* updateMessage(channel, ts, text) with raw = false, on text without
\* markdown or system reminders: stripSystemReminders trims the text
ProcessedText(text) == Trim(text)

\* timeSinceLastUpdate >= this.minInterval
IntervalElapsed(since) == since >= MinInterval

\* a test for a free timer slot that always passes
TimerFreeAlways(timer) == TRUE

\* !this.updateTimer
TimerFree(timer) == timer = NoTimer

\* the text the catch block puts into the live message
ErrorText == <<"e">>

UpdInit ==
    /\ pendingText = <<>>
    /\ lastUpdateTime = 0
    /\ updateTimer = NoTimer
    /\ scheduled = {}
    /\ inflight = {}
    /\ clock = MinInterval
    /\ timerCount = 0
    /\ editCount = 0
    /\ callCount = 0
    /\ updPhase = "streaming"
    /\ lastSentAt = 0
    /\ prevSentAt = 0
    /\ fresh = TRUE
    /\ wCalls = 0
    /\ wLate = FALSE
    /\ wSent = 0
    /\ wSentText = <<>>
    /\ callText = <<>>

\* flush() up to its await: chat.update is called with the pending text,
\* on behalf of timer callback tid (NoTimer: on behalf of append)
SendEdit(text, tid) ==
    /\ editCount' = editCount + 1
    /\ inflight' = inflight \cup
          {[id |-> editCount + 1, text |-> ProcessedText(text), timer |-> tid]}
    /\ prevSentAt' = lastSentAt
    /\ lastSentAt' = clock
    /\ wSentText' = ProcessedText(text)

\* updater.setText(text); await updater.append(''), up to the first await;
\* the caller awaits append, so the flush of its previous call has returned
OnTextUpdate(text) ==
    /\ updPhase = "streaming"
    /\ \A e \in inflight : e.timer # NoTimer
    /\ callCount < MaxCalls
    /\ editCount < MaxEdits
    /\ timerCount < MaxTimers
    /\ callCount' = callCount + 1
    /\ LET pending == text \o <<>>
           since == clock - lastUpdateTime IN
       /\ pendingText' = pending
       /\ callText' = pending
       /\ fresh' = FALSE
       /\ wCalls' = IF fresh THEN 1 ELSE wCalls + 1
       /\ wLate' = IF fresh THEN IntervalElapsed(since)
                   ELSE wLate \/ IntervalElapsed(since)
       /\ IF IntervalElapsed(since)
          THEN /\ IF pending # <<>>
                  THEN /\ SendEdit(pending, NoTimer)
                       /\ wSent' = IF fresh THEN 1 ELSE wSent + 1
                  ELSE /\ UNCHANGED <<editCount, inflight, prevSentAt,
                                      lastSentAt, wSentText>>
                       /\ wSent' = IF fresh THEN 0 ELSE wSent
               /\ UNCHANGED <<updateTimer, scheduled, timerCount>>
          ELSE /\ IF TimerFree(updateTimer)
                  THEN /\ timerCount' = timerCount + 1
                       /\ updateTimer' = timerCount + 1
                       /\ scheduled' = scheduled \cup
                             {[id |-> timerCount + 1,
                               due |-> clock + (MinInterval - since)]}
                  ELSE UNCHANGED <<updateTimer, scheduled, timerCount>>
               /\ wSent' = IF fresh THEN 0 ELSE wSent
               /\ UNCHANGED <<editCount, inflight, prevSentAt, lastSentAt,
                              wSentText>>
    /\ UNCHANGED <<lastUpdateTime, clock, updPhase>>
    /\ UNCHANGED notUpd

\* the setTimeout callback of timer t runs: await this.flush(), and when
\* there is nothing to flush, this.updateTimer = null at once
TimerFire(t) ==
    /\ t \in scheduled
    /\ clock >= t.due
    /\ editCount < MaxEdits
    /\ scheduled' = scheduled \ {t}
    /\ IF pendingText # <<>>
       THEN /\ SendEdit(pendingText, t.id)
            /\ wSent' = wSent + 1
            /\ UNCHANGED updateTimer
       ELSE /\ updateTimer' = NoTimer
            /\ UNCHANGED <<editCount, inflight, prevSentAt, lastSentAt,
                           wSentText, wSent>>
    /\ UNCHANGED <<pendingText, lastUpdateTime, clock, timerCount, callCount,
                   updPhase, fresh, wCalls, wLate, callText>>
    /\ UNCHANGED notUpd

\* the platform answers chat.update call e: flush() records the time of a
\* successful edit and logs a failed one; a timer callback then clears
\* this.updateTimer
EditDone(e, ok) ==
    /\ e \in inflight
    /\ inflight' = inflight \ {e}
    /\ lastUpdateTime' = IF ok THEN clock ELSE lastUpdateTime
    /\ fresh' = IF ok THEN TRUE ELSE fresh
    /\ updateTimer' = IF e.timer # NoTimer THEN NoTimer ELSE updateTimer
    /\ UNCHANGED <<pendingText, scheduled, clock, timerCount, editCount,
                   callCount, updPhase, lastSentAt, prevSentAt, wCalls, wLate,
                   wSent, wSentText, callText>>
    /\ UNCHANGED notUpd

\* the catch block of handleMessage: updater.setText(error text) and
\* updater.flush() up to its await; the stream loop has been left
CatchFlush ==
    /\ updPhase = "streaming"
    /\ \A e \in inflight : e.timer # NoTimer
    /\ editCount < MaxEdits
    /\ updPhase' = "catch"
    /\ pendingText' = ErrorText
    /\ SendEdit(ErrorText, NoTimer)
    /\ wSent' = wSent + 1
    /\ UNCHANGED <<lastUpdateTime, updateTimer, scheduled, clock, timerCount,
                   callCount, fresh, wCalls, wLate, callText>>
    /\ UNCHANGED notUpd

\* the stream has ended: handleMessage reads updater.getText() and edits the
\* live message with the final text (or its first chunk) by updateMessage;
\* the updater is not touched
FinalizeEdit ==
    /\ updPhase = "streaming"
    /\ \A e \in inflight : e.timer # NoTimer
    /\ updPhase' = "finalized"
    /\ UNCHANGED <<pendingText, lastUpdateTime, updateTimer, scheduled,
                   inflight, clock, timerCount, editCount, callCount, updGhost>>
    /\ UNCHANGED notUpd

\* the finally block of handleMessage: updater.cleanup() clears the timer
\* this.updateTimer names (a timer that has fired is not affected) and
\* forgets it
Cleanup ==
    /\ updPhase \in {"streaming", "finalized", "catch"}
    /\ \A e \in inflight : e.timer # NoTimer
    /\ updPhase' = "cleaned"
    /\ scheduled' = {t \in scheduled : t.id # updateTimer}
    /\ updateTimer' = NoTimer
    /\ UNCHANGED <<pendingText, lastUpdateTime, inflight, clock, timerCount,
                   editCount, callCount, updGhost>>
    /\ UNCHANGED notUpd

\* time passes
ClockTick ==
    /\ clock < MaxClock
    /\ clock' = clock + 1
    /\ UNCHANGED <<pendingText, lastUpdateTime, updateTimer, scheduled,
                   inflight, timerCount, editCount, callCount, updPhase,
                   updGhost>>
    /\ UNCHANGED notUpd

UpdNext ==
    \/ \E text \in Texts : OnTextUpdate(text)
    \/ \E id \in 1..MaxTimers, due \in 0..(MaxClock + MinInterval) :
          TimerFire([id |-> id, due |-> due])
    \/ \E id \in 1..MaxEdits, text \in Texts, tid \in 0..MaxTimers, ok \in BOOLEAN :
          EditDone([id |-> id, text |-> text, timer |-> tid], ok)
    \/ CatchFlush
    \/ FinalizeEdit
    \/ Cleanup
    \/ ClockTick

\* ------------------------------------------------- interactive prompts
\* the questions of a posted prompt that the model's user clicks
ClickedQuestions == {1, 2, MaxQuestions}

\* option labels
Labels == {<<"X">>, <<"Y">>}

NoLabel == <<>>

\* value of a button that is no prompt option (sent through the bridge API)
GenericValue == <<"O", "K">>

\* value of the Submit Answers button: '__SUBMIT_ANSWERS__'
SubmitValue == <<"_", "_", "S", "U", "B", "M", "I", "T", "_", "_">>

DigitChars == <<"0", "1", "2", "3", "4", "5", "6", "7", "8", "9">>

IsDigit(c) == \E i \in 1..10 : DigitChars[i] = c

\* String(n) for n >= 0
RECURSIVE Decimal(_)
Decimal(n) ==
    IF n < 10 THEN <<DigitChars[n + 1]>>
    ELSE Decimal(n \div 10) \o <<DigitChars[(n % 10) + 1]>>

\* UTF-16 code unit of the characters the model uses
CodeUnit(c) ==
    CASE c = "\n" -> 10
      [] c = " " -> 32
      [] IsDigit(c) -> 47 + (CHOOSE i \in 1..10 : DigitChars[i] = c)
      [] c = ":" -> 58
      [] c = "Q" -> 81
      [] c = "X" -> 88
      [] c = "Y" -> 89
      [] c = "_" -> 95
      [] c = "a" -> 97
      [] c = "b" -> 98
      [] OTHER -> 65

\* `Q${qi + 1}: ${opt.label}`, qi counted from 0
ButtonValue(qi, label) == <<"Q">> \o Decimal(qi + 1) \o <<":", " ">> \o label

\* number of digits of str from position i on
RECURSIVE DigitRun(_, _)
DigitRun(str, i) ==
    IF i <= Len(str) /\ IsDigit(str[i]) THEN 1 + DigitRun(str, i + 1) ELSE 0

\* value.match(/^Q\d+: /)
MatchesSelection(value) ==
    /\ Len(value) >= 1
    /\ value[1] = "Q"
    /\ LET n == DigitRun(value, 2) IN
       n >= 1 /\ Len(value) >= n + 3 /\ value[n + 2] = ":" /\ value[n + 3] = " "

\* value.match(/^(Q\d+):/)?.[1]
QNumOf(value) == SubSeq(value, 1, 1 + DigitRun(value, 2))

\* str.startsWith(prefix)
StartsWith(str, prefix) ==
    Len(str) >= Len(prefix) /\ SubSeq(str, 1, Len(prefix)) = prefix

\* a < b as Array.prototype.sort compares strings: by code units
RECURSIVE StringLess(_, _)
StringLess(a, b) ==
    IF Len(b) = 0 THEN FALSE
    ELSE IF Len(a) = 0 THEN TRUE
    ELSE IF CodeUnit(Head(a)) # CodeUnit(Head(b))
         THEN CodeUnit(Head(a)) < CodeUnit(Head(b))
         ELSE StringLess(Tail(a), Tail(b))

\* one element put into a sorted list
RECURSIVE InsertSorted(_, _)
InsertSorted(sorted, str) ==
    IF Len(sorted) = 0 THEN <<str>>
    ELSE IF StringLess(str, Head(sorted)) THEN <<str>> \o sorted
    ELSE <<Head(sorted)>> \o InsertSorted(Tail(sorted), str)

\* selections.sort()
RECURSIVE SortStrings(_)
SortStrings(list) ==
    IF Len(list) = 0 THEN <<>>
    ELSE InsertSorted(SortStrings(SubSeq(list, 1, Len(list) - 1)), list[Len(list)])

\* list.join('\n')
RECURSIVE JoinLines(_)
JoinLines(list) ==
    IF Len(list) = 0 THEN <<>>
    ELSE IF Len(list) = 1 THEN list[1]
    ELSE list[1] \o <<"\n">> \o JoinLines(Tail(list))

\* 'No selections made'
NoSelectionsText == <<"N", "o">>

\* push(value) without the filter
RecordSelectionAppend(selections, value) == Append(selections, value)

\* selections.filter(s => !s.startsWith(`${qNum}:`)) followed by push(value)
RecordSelection(selections, value) ==
    LET qNum == QNumOf(value)
        keep(str) == ~StartsWith(str, qNum \o <<":">>) IN
    Append(SelectSeq(selections, keep), value)

\* the text the Submit branch hands to handleMessage
AnswersText(selections) ==
    IF Len(selections) > 0 THEN JoinLines(SortStrings(selections))
    ELSE NoSelectionsText

\* a prompt posted for n questions carries a Submit button
HasSubmitButton(n) == n > 1

NoAction == [kind |-> "none", thread |-> "none", questionCount |-> 0,
             injected |-> FALSE, text |-> <<>>]

PromptInit ==
    /\ pendingSelections = [k \in Threads |-> <<>>]
    /\ prompt = [k \in Threads |-> 0]
    /\ lastAction = NoAction
    /\ chosen = [k \in Threads |-> [q \in ClickedQuestions |-> NoLabel]]
    /\ chosenAtSubmit = [q \in ClickedQuestions |-> NoLabel]
    /\ clickCount = 0

\* handleMessage posts the AskUserQuestion prompt with n questions
PostPrompt(key, n) ==
    /\ prompt[key] # n
    /\ prompt' = [prompt EXCEPT ![key] = n]
    /\ UNCHANGED <<pendingSelections, lastAction, chosen, chosenAtSubmit,
                   clickCount>>
    /\ UNCHANGED notPrompt

\* app.action for a click on the option `label` of question q (from 1)
ClickOption(key, q, label) ==
    /\ clickCount < MaxClicks
    /\ q <= prompt[key]
    /\ clickCount' = clickCount + 1
    /\ LET value == ButtonValue(q - 1, label) IN
       IF MatchesSelection(value)
       THEN /\ pendingSelections' = [pendingSelections EXCEPT
                                       ![key] = RecordSelection(@, value)]
            /\ lastAction' = [kind |-> "option", thread |-> key,
                              questionCount |-> prompt[key],
                              injected |-> FALSE, text |-> <<>>]
       ELSE /\ UNCHANGED pendingSelections
            /\ lastAction' = [kind |-> "option", thread |-> key,
                              questionCount |-> prompt[key],
                              injected |-> TRUE, text |-> value]
    /\ chosen' = [chosen EXCEPT ![key][q] = label]
    /\ UNCHANGED <<prompt, chosenAtSubmit>>
    /\ UNCHANGED notPrompt

\* a Submit branch that reads the selections and leaves them in the map
ClickSubmitKeeps(key) ==
    /\ clickCount < MaxClicks
    /\ HasSubmitButton(prompt[key])
    /\ clickCount' = clickCount + 1
    /\ lastAction' = [kind |-> "submit", thread |-> key,
                      questionCount |-> prompt[key], injected |-> TRUE,
                      text |-> AnswersText(pendingSelections[key])]
    /\ chosenAtSubmit' = chosen[key]
    /\ chosen' = [chosen EXCEPT ![key] = [q \in ClickedQuestions |-> NoLabel]]
    /\ UNCHANGED <<pendingSelections, prompt>>
    /\ UNCHANGED notPrompt

\* app.action for a click on Submit Answers
ClickSubmit(key) ==
    /\ clickCount < MaxClicks
    /\ HasSubmitButton(prompt[key])
    /\ clickCount' = clickCount + 1
    /\ pendingSelections' = [pendingSelections EXCEPT ![key] = <<>>]
    /\ lastAction' = [kind |-> "submit", thread |-> key,
                      questionCount |-> prompt[key], injected |-> TRUE,
                      text |-> AnswersText(pendingSelections[key])]
    /\ chosenAtSubmit' = chosen[key]
    /\ chosen' = [chosen EXCEPT ![key] = [q \in ClickedQuestions |-> NoLabel]]
    /\ UNCHANGED prompt
    /\ UNCHANGED notPrompt

\* app.action for a click on any other button
ClickGeneric(key) ==
    /\ clickCount < MaxClicks
    /\ clickCount' = clickCount + 1
    /\ lastAction' = [kind |-> "generic", thread |-> key,
                      questionCount |-> 0, injected |-> TRUE,
                      text |-> GenericValue]
    /\ lastAction' # lastAction
    /\ UNCHANGED <<pendingSelections, prompt, chosen, chosenAtSubmit>>
    /\ UNCHANGED notPrompt

\* app.message -> handleMessage for a message of the thread that is accepted:
\* the session is resolved, pendingSelections is not looked at
InboundMessage(h, key, user) ==
    /\ ResolveSession(h, key, user)
    /\ chosen' = [chosen EXCEPT ![key] = [q \in ClickedQuestions |-> NoLabel]]
    /\ UNCHANGED <<pendingSelections, prompt, lastAction, chosenAtSubmit,
                   clickCount>>
    /\ UNCHANGED <<updVars, streamVars, splitVars, frameVars, editVars, ioVars, reactVars, turnVars, protoVars, rateVars, gateVars, watchVars>>

\* handleMessage for a message that team mode rejects: the rejection is
\* posted and handleMessage returns before getOrCreateSession
RejectedMessage(key) ==
    /\ lastAction' = [kind |-> "rejected", thread |-> key,
                      questionCount |-> 0, injected |-> FALSE, text |-> <<>>]
    /\ lastAction' # lastAction
    /\ chosen' = [chosen EXCEPT ![key] = [q \in ClickedQuestions |-> NoLabel]]
    /\ UNCHANGED <<pendingSelections, prompt, chosenAtSubmit, clickCount>>
    /\ UNCHANGED notPrompt

PromptNext ==
    \/ \E k \in Threads, n \in {1, 2, MaxQuestions} : PostPrompt(k, n)
    \/ \E k \in Threads, q \in ClickedQuestions, l \in Labels : ClickOption(k, q, l)
    \/ \E k \in Threads : ClickSubmit(k)
    \/ \E k \in Threads : ClickGeneric(k)

\* ------------------------------------------------------------ splitForSlack
\* str.lastIndexOf(pat, from), counted from 0; -1 when there is none
LastIndexOf(str, pat, from) ==
    LET hits == {i \in 0..(Len(str) - Len(pat)) :
                   i <= from /\ SubSeq(str, i + 1, i + Len(pat)) = pat} IN
    IF hits = {} THEN -1 ELSE CHOOSE i \in hits : \A j \in hits : j <= i

\* str.slice(0, n) and str.slice(n) for 0 <= n
SliceTo(str, n) == SubSeq(str, 1, IF n < Len(str) THEN n ELSE Len(str))
SliceFrom(str, n) == SubSeq(str, n + 1, Len(str))

\* splitPoint < maxLength / 2
TooEarly(splitPoint, maxLength) == 2 * splitPoint < maxLength

\* a split point that may lie one character beyond the limit
SplitPointLoose(remaining, maxLength) ==
    LET para == LastIndexOf(remaining, <<"\n", "\n">>, maxLength + 1)
        line == IF TooEarly(para, maxLength)
                THEN LastIndexOf(remaining, <<"\n">>, maxLength + 1) ELSE para
        word == IF TooEarly(line, maxLength)
                THEN LastIndexOf(remaining, <<" ">>, maxLength + 1) ELSE line IN
    IF TooEarly(word, maxLength) THEN maxLength ELSE word

\* the splitPoint one iteration of the while loop settles on
SplitPoint(remaining, maxLength) ==
    LET para == LastIndexOf(remaining, <<"\n", "\n">>, maxLength)
        line == IF TooEarly(para, maxLength)
                THEN LastIndexOf(remaining, <<"\n">>, maxLength) ELSE para
        word == IF TooEarly(line, maxLength)
                THEN LastIndexOf(remaining, <<" ">>, maxLength) ELSE line IN
    IF TooEarly(word, maxLength) THEN maxLength ELSE word

\* the while loop of splitForSlack
RECURSIVE SplitLoop(_, _)
SplitLoop(remaining, maxLength) ==
    IF Len(remaining) = 0 THEN <<>>
    ELSE IF Len(remaining) <= maxLength THEN <<remaining>>
    ELSE LET splitPoint == SplitPoint(remaining, maxLength) IN
         <<SliceTo(remaining, splitPoint)>> \o
            SplitLoop(Trim(SliceFrom(remaining, splitPoint)), maxLength)

\* splitForSlack(text, maxLength)
splitForSlack(text, maxLength) ==
    IF Len(text) <= maxLength THEN <<text>> ELSE SplitLoop(text, maxLength)

\* the messages finalize posts for a non-empty final text
FinalMessages(processedText, maxLength) ==
    IF Len(processedText) > maxLength
    THEN splitForSlack(processedText, maxLength)
    ELSE <<processedText>>

\* ------------------------------------------------------ stream processing
\* a content block; input stands for the questions of a tool_use block's
\* input (0: none), so that prompts with different questions differ
TextBlock(text) == [type |-> "text", text |-> text, name |-> "",
                    hasQuestions |-> FALSE, input |-> 0]
ToolBlock(name, hasQuestions) ==
    [type |-> "tool_use", text |-> <<>>, name |-> name,
     hasQuestions |-> hasQuestions, input |-> IF hasQuestions THEN 1 ELSE 0]

AskBlock == ToolBlock("AskUserQuestion", TRUE)

\* an AskUserQuestion block that asks other questions
OtherAskBlock == [AskBlock EXCEPT !.input = 2]

\* the content of the assistant events the subprocess may emit
Contents ==
    {<<TextBlock(<<"a">>)>>, <<TextBlock(<<"b">>)>>, <<TextBlock(<<" ">>)>>,
     <<ToolBlock("Read", FALSE)>>,
     <<TextBlock(<<"a">>), ToolBlock("Read", FALSE)>>,
     <<ToolBlock("Read", FALSE), ToolBlock("Bash", FALSE)>>,
     <<AskBlock>>, <<AskBlock, AskBlock>>, <<OtherAskBlock>>,
     <<ToolBlock("AskUserQuestion", FALSE)>>}

\* the result field of a result event: absent, or a text
ResultTexts == {<<>>, <<"b">>}

\* content.filter(b => b.type === 'tool_use')
ToolBlocks(content) == SelectSeq(content, LAMBDA b : b.type = "tool_use")

\* content.map(block => block.text || block.content || '').join('')
RECURSIVE JoinTexts(_)
JoinTexts(content) ==
    IF Len(content) = 0 THEN <<>>
    ELSE Head(content).text \o JoinTexts(Tail(content))

\* extractText(content)
extractText(content) == Trim(JoinTexts(content))

\* toolBlocks.filter(...): AskUserQuestion blocks are dropped when
\* askedQuestions is already set as the filter runs
UniqueToolBlocks(toolBlocks, asked) ==
    SelectSeq(toolBlocks, LAMBDA b : ~(b.name = "AskUserQuestion" /\ asked))

\* the block is rendered as a prompt with buttons
IsPrompt(block) == block.name = "AskUserQuestion" /\ block.hasQuestions

\* a loop that posts a message for the first block only
ToolPostsFirst(blocks, n) ==
    IF Len(blocks) = 0 THEN <<>>
    ELSE <<[kind |-> IF IsPrompt(Head(blocks)) THEN "prompt" ELSE "tool",
            text |-> <<>>, name |-> Head(blocks).name, src |-> n,
            prompt |-> IF IsPrompt(Head(blocks)) THEN Head(blocks).input ELSE 0]>>

\* the messages the for loop over uniqueToolBlocks posts for event n
RECURSIVE ToolPosts(_, _)
ToolPosts(blocks, n) ==
    IF Len(blocks) = 0 THEN <<>>
    ELSE <<[kind |-> IF IsPrompt(Head(blocks)) THEN "prompt" ELSE "tool",
            text |-> <<>>, name |-> Head(blocks).name, src |-> n,
            prompt |-> IF IsPrompt(Head(blocks)) THEN Head(blocks).input ELSE 0]>>
         \o ToolPosts(Tail(blocks), n)

\* a text message of the thread, carrying the text of event n
TextPost(text, n) ==
    [kind |-> "text", text |-> text, name |-> "", src |-> n, prompt |-> 0]

\* newText, with text captured even after a prompt was posted
NewTextAlways(content, asked) ==
    IF Len(ToolBlocks(content)) = 0 THEN extractText(content) ELSE <<>>

\* newText = (toolBlocks.length === 0 && !askedQuestions)
\*              ? extractText(content) : ''
NewText(content, asked) ==
    IF Len(ToolBlocks(content)) = 0 /\ ~asked THEN extractText(content)
    ELSE <<>>

\* the turn text with the new text added at its end
TurnTextAppended(current, newText) == current \o newText

\* if (newText) { ...; currentTurnText = newText }
TurnText(current, newText) == IF newText # <<>> THEN newText ELSE current

\* the result text taken whatever was captured before
AdoptResultAlways(current, result) == IF result # <<>> THEN result ELSE current

\* if (event.result && !currentTurnText) currentTurnText = event.result
AdoptResult(current, result) ==
    IF result # <<>> /\ current = <<>> THEN result ELSE current

\* if (event.cost_usd) costUsd = event.cost_usd
CaptureCost(current, cost) == IF cost # 0 THEN cost ELSE current

\* the previous text is posted whenever a new text arrives
PreviousTurnDueAlways(content, asked, wasTool, turnText) ==
    /\ NewText(content, asked) # <<>>
    /\ turnText # <<>>

\* the text of the previous turn is posted when this event is handled
PreviousTurnDue(content, asked, wasTool, turnText) ==
    /\ NewText(content, asked) # <<>>
    /\ wasTool /\ turnText # <<>>

NoBoundary == [at |-> 0, src |-> 0]
NoEvent == [kind |-> "none", text |-> <<>>]
ExitCodes == {0, 1}

StreamInit ==
    /\ spc = "posted"
    /\ eventCount = 0
    /\ currentTurnText = <<>>
    /\ currentTurnSrc = 0
    /\ turnCount = 0
    /\ lastEventWasTool = FALSE
    /\ askedQuestions = FALSE
    /\ costUsd = 0
    /\ thread = <<>>
    /\ liveText = "processing"
    /\ askSeen = 0
    /\ exitCode = 0
    /\ stderrSeen = FALSE
    /\ turnTexts = <<>>
    /\ userBoundary = NoBoundary
    /\ lastEvent = NoEvent

\* await addReaction(channel, ts, 'hourglass_flowing_sand'), before the try
\* block: when the call fails the exception leaves handleMessage
AddThinkingReaction(ok) ==
    /\ spc = "posted"
    /\ spc' = IF ok THEN "streaming" ELSE "thrown"
    /\ UNCHANGED <<eventCount, currentTurnText, currentTurnSrc, turnCount,
                   lastEventWasTool, askedQuestions, costUsd, thread, liveText,
                   askSeen, exitCode, stderrSeen, turnTexts, userBoundary,
                   lastEvent>>
    /\ UNCHANGED notStream

\* the loop body for an event of type 'assistant' with the given content
ConsumeAssistant(content) ==
    /\ spc = "streaming"
    /\ eventCount < MaxEvents
    /\ eventCount' = eventCount + 1
    /\ LET n == eventCount + 1
           toolBlocks == ToolBlocks(content)
           newText == NewText(content, askedQuestions)
           unique == UniqueToolBlocks(toolBlocks, askedQuestions)
           toolPosts == ToolPosts(unique, n)
           flushPrev == PreviousTurnDue(content, askedQuestions,
                                        lastEventWasTool, currentTurnText)
           prevPosts == IF flushPrev
                        THEN <<TextPost(ProcessedText(currentTurnText),
                                        currentTurnSrc)>>
                        ELSE <<>> IN
       /\ thread' = thread \o toolPosts \o prevPosts
       /\ askedQuestions' = (askedQuestions \/ \E i \in 1..Len(unique) : IsPrompt(unique[i]))
       /\ askSeen' = askSeen + Cardinality({i \in 1..Len(toolBlocks) : IsPrompt(toolBlocks[i])})
       /\ turnCount' = IF flushPrev THEN turnCount + 1 ELSE turnCount
       /\ currentTurnText' = TurnText(currentTurnText, newText)
       /\ currentTurnSrc' = IF newText # <<>> THEN n ELSE currentTurnSrc
       /\ lastEventWasTool' = IF Len(toolBlocks) > 0 THEN TRUE
                              ELSE IF newText # <<>> THEN FALSE
                              ELSE lastEventWasTool
       /\ turnTexts' = IF Len(toolBlocks) > 0 THEN <<>>
                       ELSE IF newText # <<>> THEN Append(turnTexts, newText)
                       ELSE turnTexts
       /\ lastEvent' = [kind |-> "assistant",
                        text |-> IF Len(toolBlocks) = 0
                                 THEN extractText(content) ELSE <<>>]
    /\ UNCHANGED <<spc, costUsd, liveText, exitCode, stderrSeen, userBoundary>>

AssistantEvent(content) ==
    /\ ConsumeAssistant(content)
    /\ UNCHANGED notStream

\* the loop body for an event of type 'user' (a tool result)
UserEvent ==
    /\ spc = "streaming"
    /\ eventCount < MaxEvents
    /\ eventCount' = eventCount + 1
    /\ lastEventWasTool' = TRUE
    /\ turnTexts' = <<>>
    /\ userBoundary' = IF userBoundary = NoBoundary /\ currentTurnText # <<>>
                           /\ ~askedQuestions
                        THEN [at |-> eventCount + 1, src |-> currentTurnSrc]
                        ELSE userBoundary
    /\ lastEvent' = [kind |-> "user", text |-> <<>>]
    /\ UNCHANGED <<spc, currentTurnText, currentTurnSrc, turnCount,
                   askedQuestions, costUsd, thread, liveText, askSeen,
                   exitCode, stderrSeen>>
    /\ UNCHANGED notStream

\* the loop body for an event of type 'result'
ResultEvent(result, cost) ==
    /\ spc = "streaming"
    /\ eventCount < MaxEvents
    /\ eventCount' = eventCount + 1
    /\ costUsd' = CaptureCost(costUsd, cost)
    /\ currentTurnText' = AdoptResult(currentTurnText, result)
    /\ currentTurnSrc' = IF result # <<>> /\ currentTurnText = <<>>
                         THEN eventCount + 1 ELSE currentTurnSrc
    /\ lastEvent' = [kind |-> "result", text |-> result]
    /\ UNCHANGED <<spc, turnCount, lastEventWasTool, askedQuestions, thread,
                   liveText, askSeen, exitCode, stderrSeen, turnTexts,
                   userBoundary>>
    /\ UNCHANGED notStream

\* the subprocess has exited with the given code, executeClaudeStreaming
\* returns and the code after the for await loop runs with every call
\* succeeding
Finalize(code, err) ==
    /\ spc = "streaming"
    /\ spc' = "done"
    /\ exitCode' = code
    /\ stderrSeen' = err
    /\ IF askedQuestions
       THEN /\ liveText' = "waiting"
            /\ UNCHANGED thread
       ELSE /\ liveText' = "completed"
            /\ thread' = IF currentTurnText = <<>> THEN thread
                         ELSE LET msgs == FinalMessages(ProcessedText(currentTurnText),
                                                        MaxSlackMessageLength) IN
                              thread \o [i \in 1..Len(msgs) |->
                                           TextPost(msgs[i], currentTurnSrc)]
    /\ UNCHANGED <<eventCount, currentTurnText, currentTurnSrc, turnCount,
                   lastEventWasTool, askedQuestions, costUsd, askSeen,
                   turnTexts, userBoundary, lastEvent>>
    /\ UNCHANGED notStream

\* the stream has ended and the marker was written into the live message,
\* then a later call of the try block throws (the post of the final text, or
\* a reaction): the catch block runs, its flush edits the live message when
\* flushOk and only logs the failure otherwise
FinalizeInterrupted(code, flushOk) ==
    /\ spc = "streaming"
    /\ spc' = "failed"
    /\ exitCode' = code
    /\ liveText' = IF flushOk THEN "error"
                   ELSE IF askedQuestions THEN "waiting" ELSE "completed"
    /\ UNCHANGED <<eventCount, currentTurnText, currentTurnSrc, turnCount,
                   lastEventWasTool, askedQuestions, costUsd, thread, askSeen,
                   stderrSeen, turnTexts, userBoundary, lastEvent>>
    /\ UNCHANGED notStream

\* an await of the try block throws while the stream is read (the subprocess
\* cannot be started or read, or a platform call fails): the catch block
\* runs, its flush edits the live message when flushOk and only logs the
\* failure otherwise
StreamError(flushOk) ==
    /\ spc = "streaming"
    /\ spc' = "failed"
    /\ liveText' = IF flushOk THEN "error" ELSE liveText
    /\ UNCHANGED <<eventCount, currentTurnText, currentTurnSrc, turnCount,
                   lastEventWasTool, askedQuestions, costUsd, thread, askSeen,
                   exitCode, stderrSeen, turnTexts, userBoundary, lastEvent>>
    /\ UNCHANGED notStream

StreamNext ==
    \/ \E ok \in BOOLEAN : AddThinkingReaction(ok)
    \/ \E content \in Contents : AssistantEvent(content)
    \/ UserEvent
    \/ \E result \in ResultTexts, cost \in {0, 1} : ResultEvent(result, cost)
    \/ \E code \in ExitCodes, err \in BOOLEAN : Finalize(code, err)
    \/ \E code \in ExitCodes, flushOk \in BOOLEAN :
          FinalizeInterrupted(code, flushOk)
    \/ \E flushOk \in BOOLEAN : StreamError(flushOk)

\* ------------------------------------------------- delivery of a long answer
SplitChars == {"a", " ", "\n"}

\* the texts of up to MaxLen characters
SplitInputs == UNION {[1..n -> SplitChars] : n \in 0..MaxLen}

\* `:white_check_mark: Completed in ${duration}s`
CompletedMarker == <<"C">>

SplitIdle ==
    /\ splitText = <<>>
    /\ splitMax = 1
    /\ chunks = <<>>
    /\ posted = <<>>
    /\ splitLive = <<>>

SplitDraw ==
    /\ splitText \in SplitInputs
    /\ splitMax \in 1..MaxChunk
    /\ chunks = <<>>
    /\ posted = <<>>
    /\ splitLive = <<>>

\* finalize edits the live status message to the completion marker, finds
\* processedText longer than the limit and splits it
SplitLongText ==
    /\ chunks = <<>>
    /\ Len(splitText) > splitMax
    /\ splitLive' = CompletedMarker
    /\ chunks' = splitForSlack(splitText, splitMax)
    /\ UNCHANGED <<splitText, splitMax, posted>>
    /\ UNCHANGED notSplit

\* for (const chunk of chunks) await postMessage(channel, chunk, threadTs, true)
PostChunk ==
    /\ Len(posted) < Len(chunks)
    /\ posted' = Append(posted, chunks[Len(posted) + 1])
    /\ UNCHANGED <<splitText, splitMax, chunks, splitLive>>
    /\ UNCHANGED notSplit

SplitNext == SplitLongText \/ PostChunk

\* ------------------------------------------------ executeClaudeStreaming
\* The characters of stdout: "{" and "}" open and close the JSON object of
\* an event (its members are left out), "0" is a JSON number, " " is a
\* blank and "\n" ends a line.
FrameChars == {"{", "}", "0", " ", "\n"}

\* the chunks reader.read() may return
FrameChunks == UNION {[1..n -> FrameChars] : n \in 1..MaxChunkLen}

\* buffer.split('\n')
RECURSIVE SplitLines(_)
SplitLines(str) ==
    IF \A i \in 1..Len(str) : str[i] # "\n" THEN <<str>>
    ELSE LET i == CHOOSE k \in 1..Len(str) :
                     str[k] = "\n" /\ \A j \in 1..(k - 1) : str[j] # "\n" IN
         <<SubSeq(str, 1, i - 1)>> \o SplitLines(SubSeq(str, i + 1, Len(str)))

\* JSON.parse(line): the value of a text that is one JSON value with blanks
\* around it, an exception for every other text
JSONParse(line) ==
    LET text == Trim(line) IN
    IF text = <<"{", "}">> THEN "event"
    ELSE IF text = <<"0">> THEN "number"
    ELSE "SyntaxError"

\* for (const line of lines) { if (!line.trim()) continue;
\*   try { yield JSON.parse(line) } catch { log } }
RECURSIVE YieldLines(_)
YieldLines(lines) ==
    IF Len(lines) = 0 THEN <<>>
    ELSE LET line == Head(lines) IN
         (IF Trim(line) = <<>> \/ JSONParse(line) = "SyntaxError"
          THEN <<>> ELSE <<JSONParse(line)>>) \o YieldLines(Tail(lines))

FrameInit ==
    /\ fpc = "reading"
    /\ buffer = <<>>
    /\ yielded = <<>>
    /\ received = <<>>
    /\ reads = 0

\* reader.read() returns a chunk: one pass of the while loop
ReadChunk(chunk) ==
    /\ fpc = "reading"
    /\ reads < MaxReads
    /\ reads' = reads + 1
    /\ received' = received \o chunk
    /\ LET lines == SplitLines(buffer \o chunk) IN
       /\ buffer' = lines[Len(lines)]
       /\ yielded' = yielded \o YieldLines(SubSeq(lines, 1, Len(lines) - 1))
    /\ UNCHANGED fpc
    /\ UNCHANGED notFrame

\* reader.read() returns done: the rest of the buffer is processed
EndOfOutput ==
    /\ fpc = "reading"
    /\ fpc' = "ended"
    /\ yielded' = yielded \o YieldLines(<<buffer>>)
    /\ UNCHANGED <<buffer, received, reads>>
    /\ UNCHANGED notFrame

FrameNext ==
    \/ \E chunk \in FrameChunks : ReadChunk(chunk)
    \/ EndOfOutput

\* ------------------------------------------------------- updateMessage
\* the safe limit of the fallback: processedText.slice(0, 3500)
SafeLimit == 3500

\* '\n\n... _(message truncated - too long for Slack)_'
TruncationMarker == <<"\n", "\n", ".", ".", ".", " ", "_", "T", "_">>

\* the texts updateMessage is called with (raw): two short ones, one as
\* long as the safe limit and one a character longer
UpdateTexts ==
    {<<"a">>, <<"a", "\n">>,
     [i \in 1..SafeLimit |-> "a"],
     [i \in 1..(SafeLimit + 1) |-> IF i <= SafeLimit THEN "a" ELSE "b"]}

\* what chat.update may answer: success, data.error 'msg_too_long', another
\* data.error, or an error without data (the request did not get through)
PlatformErrors == {"msg_too_long", "ratelimited", "no_data"}
PlatformAnswers == {"ok"} \cup PlatformErrors

\* slackError.data?.error === 'msg_too_long'
IsTooLong(answer) == answer = "msg_too_long"

\* the fallback text without the cut
MarkedOnly(text) == text \o TruncationMarker

\* processedText.slice(0, 3500) + marker
AggressiveTruncate(text) == SliceTo(text, SafeLimit) \o TruncationMarker

EditInit ==
    /\ upc = "idle"
    /\ utext = <<>>
    /\ usent = <<>>
    /\ ufirst = "none"
    /\ uerror = "none"
    /\ ucalls = 0

\* updateMessage(channel, ts, text, true) up to its first await
UpdateMessageCall(text) ==
    /\ upc \in {"idle", "returned", "thrown"}
    /\ ucalls < MaxUpdates
    /\ ucalls' = ucalls + 1
    /\ upc' = "first"
    /\ utext' = text
    /\ usent' = <<text>>
    /\ ufirst' = "none"
    /\ uerror' = "none"
    /\ UNCHANGED notEdit

\* the first chat.update settles: return, the fallback, or throw error
FirstAnswer(answer) ==
    /\ upc = "first"
    /\ ufirst' = answer
    /\ IF answer = "ok"
       THEN /\ upc' = "returned"
            /\ UNCHANGED <<usent, uerror>>
       ELSE IF IsTooLong(answer)
       THEN /\ upc' = "retry"
            /\ usent' = Append(usent, AggressiveTruncate(utext))
            /\ UNCHANGED uerror
       ELSE /\ upc' = "thrown"
            /\ uerror' = answer
            /\ UNCHANGED usent
    /\ UNCHANGED <<utext, ucalls>>
    /\ UNCHANGED notEdit

\* the chat.update of the fallback settles: return, or its error leaves
\* the catch block
RetryAnswer(answer) ==
    /\ upc = "retry"
    /\ IF answer = "ok"
       THEN /\ upc' = "returned"
            /\ UNCHANGED uerror
       ELSE /\ upc' = "thrown"
            /\ uerror' = answer
    /\ UNCHANGED <<utext, usent, ufirst, ucalls>>
    /\ UNCHANGED notEdit

EditNext ==
    \/ \E text \in UpdateTexts : UpdateMessageCall(text)
    \/ \E answer \in PlatformAnswers : FirstAnswer(answer)
    \/ \E answer \in PlatformAnswers : RetryAnswer(answer)

\* ------------------------------------------ registry with failing file I/O
\* loadSessions() with a file system that may fail: the catch block logs
\* the error and { sessions: {} } is returned
ReadFile(disk, ok) == [store |-> IF ok THEN disk ELSE {}, threw |-> FALSE]

\* a write whose error leaves saveSessions
WriteFileThrows(disk, store, ok) ==
    [disk |-> IF ok THEN store ELSE disk, threw |-> ~ok]

\* saveSessions(store) with a file system that may fail: the catch block
\* logs the error, the file keeps its content
WriteFile(disk, store, ok) ==
    [disk |-> IF ok THEN store ELSE disk, threw |-> FALSE]

NoResult == [op |-> "none", key |-> "null", sessionId |-> NoSession,
             isNew |-> FALSE, count |-> 0, threw |-> FALSE,
             readOk |-> TRUE, writeOk |-> TRUE]

IoInit ==
    /\ ioResult = NoResult
    /\ held = [k \in Threads |-> NoSession]

\* getOrCreateSession(channelId, threadTs, userId)
ResolveIO(key, user, readOk, writeOk) ==
    LET rd == ReadFile(sessionsFile, readOk)
        r == getOrCreateSession(rd.store, key, user, now, uuidCount + 1)
        wr == WriteFile(sessionsFile, r.file, writeOk) IN
    /\ r.isNew => uuidCount < MaxUuid
    /\ sessionsFile' = IF rd.threw THEN sessionsFile ELSE wr.disk
    /\ uuidCount' = IF r.isNew /\ ~rd.threw THEN uuidCount + 1 ELSE uuidCount
    /\ ioResult' = [op |-> "resolve", key |-> key,
                    sessionId |-> r.session.sessionId, isNew |-> r.isNew,
                    count |-> 0, threw |-> rd.threw \/ wr.threw,
                    readOk |-> readOk, writeOk |-> writeOk]
    /\ held' = [held EXCEPT ![key] = r.session.sessionId]
    /\ UNCHANGED <<now, hVars, epoch, ghostVars, lookupResult>>
    /\ UNCHANGED notIo

\* updateSessionActivity(channelId, threadTs)
TouchIO(key, readOk, writeOk) ==
    LET rd == ReadFile(sessionsFile, readOk)
        found == HasKey(rd.store, key)
        wr == WriteFile(sessionsFile,
                        updateSessionActivity(rd.store, key, now), writeOk) IN
    /\ sessionsFile' = IF found /\ ~rd.threw THEN wr.disk ELSE sessionsFile
    /\ ioResult' = [op |-> "touch", key |-> key, sessionId |-> NoSession,
                    isNew |-> FALSE, count |-> 0,
                    threw |-> rd.threw \/ (found /\ wr.threw),
                    readOk |-> readOk, writeOk |-> writeOk]
    /\ ioResult' # ioResult \/ sessionsFile' # sessionsFile
    /\ UNCHANGED <<now, uuidCount, hVars, epoch, ghostVars, lookupResult, held>>
    /\ UNCHANGED notIo

\* getSessionBySessionId(sessionId)
FindIO(sid, readOk) ==
    LET rd == ReadFile(sessionsFile, readOk)
        m == getSessionBySessionId(rd.store, sid) IN
    /\ ioResult' = [op |-> "find", key |-> m.key, sessionId |-> sid,
                    isNew |-> FALSE, count |-> 0, threw |-> rd.threw,
                    readOk |-> readOk, writeOk |-> TRUE]
    /\ ioResult' # ioResult
    /\ UNCHANGED <<regVars, held>>
    /\ UNCHANGED notIo

\* cleanupOldSessions(24), as the hourly callback runs it
SweepIO(readOk, writeOk) ==
    LET rd == ReadFile(sessionsFile, readOk)
        removed == cleanupOldSessionsResult(rd.store, now, MaxAgeHours)
        wr == WriteFile(sessionsFile,
                        cleanupOldSessions(rd.store, now, MaxAgeHours), writeOk) IN
    /\ sessionsFile' = IF removed > 0 /\ ~rd.threw THEN wr.disk ELSE sessionsFile
    /\ ioResult' = [op |-> "sweep", key |-> "null", sessionId |-> NoSession,
                    isNew |-> FALSE, count |-> removed,
                    threw |-> rd.threw \/ (removed > 0 /\ wr.threw),
                    readOk |-> readOk, writeOk |-> writeOk]
    /\ ioResult' # ioResult \/ sessionsFile' # sessionsFile
    /\ held' = [k \in Threads |->
                  IF \E m \in Expired(rd.store, now, MaxAgeHours) : m.key = k
                  THEN NoSession ELSE held[k]]
    /\ UNCHANGED <<now, uuidCount, hVars, epoch, ghostVars, lookupResult>>
    /\ UNCHANGED notIo

IoNext ==
    \/ \E k \in Threads, u \in Users, rd, wr \in BOOLEAN : ResolveIO(k, u, rd, wr)
    \/ \E k \in Threads, rd, wr \in BOOLEAN : TouchIO(k, rd, wr)
    \/ \E sid \in 1..MaxUuid, rd \in BOOLEAN : FindIO(sid, rd)
    \/ \E rd, wr \in BOOLEAN : SweepIO(rd, wr)
    \/ Tick

\* ------------------------------------------------------------ file watcher
\* invocations of handleMessage in team-mode channels with autoUploadAssets,
\* one per thread, sharing the global FileWatcher and pendingFilesQueue
NoActive == "null"
NoWriter == "none"
Files == {"a.png", "b.png"}

\* the invocation has set the watcher and has not yet collected its files
InFlight == {"running", "settling"}

WatchInit ==
    /\ activeSession = NoActive
    /\ pendingFilesQueue = <<>>
    /\ seenFiles = {}
    /\ detecting = {}
    /\ wpc = [t \in Threads |-> "idle"]
    /\ uploads = [t \in Threads |-> <<>>]
    /\ writer = [f \in Files |-> NoWriter]

\* clearPendingFiles(); fileWatcher.setActiveSession(channel, threadTs, ...)
WatchActivate(t) ==
    /\ wpc[t] = "idle"
    /\ pendingFilesQueue' = <<>>
    /\ activeSession' = t
    /\ wpc' = [wpc EXCEPT ![t] = "running"]
    /\ UNCHANGED <<seenFiles, detecting, uploads, writer>>
    /\ UNCHANGED notWatch

\* the subprocess of t's invocation writes file f into a watched directory:
\* handleFileEvent up to its delay
FileEvent(t, f) ==
    /\ wpc[t] = "running"
    /\ writer[f] = NoWriter
    /\ writer' = [writer EXCEPT ![f] = t]
    /\ detecting' = IF f \in seenFiles \/ activeSession = NoActive
                    THEN detecting
                    ELSE detecting \cup {f}
    /\ UNCHANGED <<activeSession, pendingFilesQueue, seenFiles, wpc, uploads>>
    /\ UNCHANGED notWatch

\* handleFileEvent after the delay: createPendingFile attributes the file to
\* the session active now (its catch returns null when there is none) and
\* onFileDetected queues it
FileCreated(f) ==
    /\ f \in detecting
    /\ detecting' = detecting \ {f}
    /\ IF activeSession = NoActive
       THEN UNCHANGED <<seenFiles, pendingFilesQueue>>
       ELSE /\ seenFiles' = seenFiles \cup {f}
            /\ pendingFilesQueue' =
                   Append(pendingFilesQueue, [file |-> f, thread |-> activeSession])
    /\ UNCHANGED <<activeSession, wpc, uploads, writer>>
    /\ UNCHANGED notWatch

\* the stream has ended: fileWatcher.clearActiveSession(), then the delay
WatchDeactivate(t) ==
    /\ wpc[t] = "running"
    /\ activeSession' = NoActive
    /\ wpc' = [wpc EXCEPT ![t] = "settling"]
    /\ UNCHANGED <<pendingFilesQueue, seenFiles, detecting, uploads, writer>>
    /\ UNCHANGED notWatch

\* getPendingFiles() and uploadFilesToThread(allowed, channelConfig)
WatchUpload(t) ==
    /\ wpc[t] = "settling"
    /\ uploads' = [uploads EXCEPT ![t] = pendingFilesQueue]
    /\ pendingFilesQueue' = <<>>
    /\ wpc' = [wpc EXCEPT ![t] = "uploading"]
    /\ UNCHANGED <<activeSession, seenFiles, detecting, writer>>
    /\ UNCHANGED notWatch

\* the stream throws: the catch block reports the error
WatchFail(t) ==
    /\ wpc[t] = "running"
    /\ wpc' = [wpc EXCEPT ![t] = "failed"]
    /\ UNCHANGED <<activeSession, pendingFilesQueue, seenFiles, detecting,
                   uploads, writer>>
    /\ UNCHANGED notWatch

\* finally: fileWatcher.clearActiveSession(); clearPendingFiles()
WatchFinally(t) ==
    /\ wpc[t] \in {"uploading", "failed"}
    /\ activeSession' = NoActive
    /\ pendingFilesQueue' = <<>>
    /\ wpc' = [wpc EXCEPT ![t] = "done"]
    /\ UNCHANGED <<seenFiles, detecting, uploads, writer>>
    /\ UNCHANGED notWatch

WatchNext ==
    \/ \E t \in Threads : WatchActivate(t)
    \/ \E t \in Threads, f \in Files : FileEvent(t, f)
    \/ \E f \in Files : FileCreated(f)
    \/ \E t \in Threads : WatchDeactivate(t)
    \/ \E t \in Threads : WatchUpload(t)
    \/ \E t \in Threads : WatchFail(t)
    \/ \E t \in Threads : WatchFinally(t)

\* ------------------------------------------------------------ event intake
\* the listeners of index.ts: app.message, app_mention and app.action
Members == {"U1", "U2"}
Channels == {"C1", "C2"}
AllowedChannels == {"C1"}
Vias == {"im", "channel", "mention", "click"}

isAllowedUser(userId) ==
    IF allowedUsers = {} THEN TRUE ELSE userId \in allowedUsers

isAllowedChannel(channel) ==
    IF AllowedChannels = {} THEN TRUE ELSE channel \in AllowedChannels

\* BRIDGE_ALLOWED_USERS is not set
GateIdle ==
    /\ allowedUsers = {}
    /\ invoked = {}
    /\ bridgePosts = {}
    /\ controls = {}

\* BRIDGE_ALLOWED_USERS lists any of the members, or none
GateDraw ==
    /\ allowedUsers \in SUBSET Members
    /\ invoked = {}
    /\ bridgePosts = {}
    /\ controls = {}

\* handleMessage called for an event of `user`: it posts the status message
\* and starts the subprocess
CallHandleMessage(user, via) ==
    /\ invoked' = invoked \cup {[user |-> user, via |-> via]}
    /\ bridgePosts' = bridgePosts \cup {[user |-> user, kind |-> "processing"]}

\* app.message
AppMessage(user, channelType, channel, isBot, mentionsBot) ==
    /\ IF \/ isBot
          \/ (channelType # "im" /\ mentionsBot)
          \/ ~isAllowedUser(user)
          \/ (channelType # "im" /\ ~isAllowedChannel(channel))
       THEN UNCHANGED <<invoked, bridgePosts>>
       ELSE CallHandleMessage(user, channelType)
    /\ UNCHANGED <<allowedUsers, controls>>
    /\ UNCHANGED notGate

\* app.event('app_mention') and handleMention
AppMention(user, emptyText) ==
    /\ IF ~isAllowedUser(user)
       THEN UNCHANGED <<invoked, bridgePosts>>
       ELSE IF emptyText
            THEN /\ bridgePosts' =
                        bridgePosts \cup {[user |-> user, kind |-> "greeting"]}
                 /\ UNCHANGED invoked
            ELSE CallHandleMessage(user, "mention")
    /\ UNCHANGED <<allowedUsers, controls>>
    /\ UNCHANGED notGate

\* an invocation's stream asks a question: handleMessage posts the prompt
\* with its buttons into the thread of the invocation
RenderControl(e) ==
    /\ e \in invoked
    /\ controls' = controls \cup
           {[place |-> IF e.via = "im" THEN "im" ELSE "channel", user |-> e.user]}
    /\ UNCHANGED <<allowedUsers, invoked, bridgePosts>>
    /\ UNCHANGED notGate

\* app.action: `user` clicks a button of the rendered prompt c; a prompt in
\* a direct message is shown to its user only
AppAction(user, c, value) ==
    /\ c \in controls
    /\ c.place = "im" => user = c.user
    /\ IF value = "option"
       THEN UNCHANGED <<invoked, bridgePosts>>
       ELSE /\ invoked' = invoked \cup {[user |-> user, via |-> "click"]}
            /\ bridgePosts' = bridgePosts \cup
                   {[user |-> user, kind |-> "selected"],
                    [user |-> user, kind |-> "processing"]}
    /\ UNCHANGED <<allowedUsers, controls>>
    /\ UNCHANGED notGate

GateNext ==
    \/ \E u \in Members, ct \in {"im", "channel"}, ch \in Channels,
          b, m \in BOOLEAN : AppMessage(u, ct, ch, b, m)
    \/ \E u \in Members, e \in BOOLEAN : AppMention(u, e)
    \/ \E u \in Members, via \in Vias :
          RenderControl([user |-> u, via |-> via])
    \/ \E u, o \in Members, pl \in {"im", "channel"},
          v \in {"option", "submit", "generic"} :
          AppAction(u, [place |-> pl, user |-> o], v)

\* ------------------------------------------------------------- rate limits
\* the inbound messages of one team-mode channel
MaxRequests == 3
Requests == 1..MaxRequests
RequestsPerHour == 1
RequestsPerDay == 2
StartHour == 22
MaxHour == 24
HoursPerDay == 24
NoHour == 0 - 1

Hours == StartHour..MaxHour
DayOf(h) == h \div HoursPerDay
Days == {DayOf(h) : h \in Hours}

\* checkRateLimits(userId, channelId, config): the request limits
checkRateLimits(buckets, daily, h) ==
    IF buckets[h] >= RequestsPerHour THEN FALSE
    ELSE IF daily[DayOf(h)] >= RequestsPerDay THEN FALSE
    ELSE TRUE

RateInit ==
    /\ hour = StartHour
    /\ hourlyBuckets = [h \in Hours |-> 0]
    /\ dailyRequests = [d \in Days |-> 0]
    /\ rpc = [r \in Requests |-> "idle"]
    /\ startHour = [r \in Requests |-> NoHour]
    /\ rateSessions = {}

\* handleMessage up to its first await: the rate check, then either the
\* rate-limit message or getOrCreateSession and on to the invocation
RateCheck(r) ==
    /\ rpc[r] = "idle"
    /\ IF checkRateLimits(hourlyBuckets, dailyRequests, hour)
       THEN /\ rpc' = [rpc EXCEPT ![r] = "running"]
            /\ startHour' = [startHour EXCEPT ![r] = hour]
            /\ rateSessions' = rateSessions \cup {r}
       ELSE /\ rpc' = [rpc EXCEPT ![r] = "limited"]
            /\ UNCHANGED <<startHour, rateSessions>>
    /\ UNCHANGED <<hour, hourlyBuckets, dailyRequests>>
    /\ UNCHANGED notRate

\* the invocation has ended and its answer is out: recordUsage with the
\* timestamp of now
RecordUsage(r) ==
    /\ rpc[r] = "running"
    /\ hourlyBuckets' = [hourlyBuckets EXCEPT ![hour] = @ + 1]
    /\ dailyRequests' = [dailyRequests EXCEPT ![DayOf(hour)] = @ + 1]
    /\ rpc' = [rpc EXCEPT ![r] = "done"]
    /\ UNCHANGED <<hour, startHour, rateSessions>>
    /\ UNCHANGED notRate

\* the invocation throws: the catch block runs, nothing is recorded
RateFail(r) ==
    /\ rpc[r] = "running"
    /\ rpc' = [rpc EXCEPT ![r] = "failed"]
    /\ UNCHANGED <<hour, hourlyBuckets, dailyRequests, startHour, rateSessions>>
    /\ UNCHANGED notRate

HourTick ==
    /\ hour < MaxHour
    /\ hour' = hour + 1
    /\ UNCHANGED <<hourlyBuckets, dailyRequests, rpc, startHour, rateSessions>>
    /\ UNCHANGED notRate

RateNext ==
    \/ \E r \in Requests : RateCheck(r)
    \/ \E r \in Requests : RecordUsage(r)
    \/ \E r \in Requests : RateFail(r)
    \/ HourTick

\* ------------------------------------------------------ new or resume
\* the messages of the threads handled one after the other, with platform
\* calls that may fail between getOrCreateSession and the spawn
MaxSpawns == 3
ProtoHandler == "h1"

ProtoInit ==
    /\ ppc = "idle"
    /\ spawnLog = <<>>

\* handleMessage up to the post of the status message
ProtoResolve(key, user) ==
    /\ ppc = "idle"
    /\ Len(spawnLog) < MaxSpawns
    /\ ResolveSession(ProtoHandler, key, user)
    /\ ppc' = "posting"
    /\ UNCHANGED spawnLog
    /\ UNCHANGED notRegistry

\* postMessage and addReaction succeed; executeClaudeStreaming spawns the
\* subprocess with --session-id when isNew and with --resume otherwise
ProtoSpawn ==
    /\ ppc = "posting"
    /\ spawnLog' = Append(spawnLog,
           [sessionId |-> hsession[ProtoHandler],
            mode |-> IF hisNew[ProtoHandler] THEN "new" ELSE "resume"])
    /\ ppc' = "spawned"
    /\ UNCHANGED regVars
    /\ UNCHANGED notProto

\* postMessage (or addReaction, or the download of attached files) throws
\* before the try block: handleMessage rejects, nothing was spawned
ProtoPostFails ==
    /\ ppc = "posting"
    /\ HandlerGone(ProtoHandler)
    /\ ppc' = "idle"
    /\ UNCHANGED <<sessionsFile, now, uuidCount, epoch, ghostVars, lookupResult>>
    /\ UNCHANGED spawnLog
    /\ UNCHANGED notRegistry

\* the stream ends, normally or through the catch block
ProtoEnd ==
    /\ ppc = "spawned"
    /\ HandlerGone(ProtoHandler)
    /\ ppc' = "idle"
    /\ UNCHANGED <<sessionsFile, now, uuidCount, epoch, ghostVars, lookupResult>>
    /\ UNCHANGED spawnLog
    /\ UNCHANGED notRegistry

ProtoNext ==
    \/ \E k \in Threads, u \in Users : ProtoResolve(k, u)
    \/ ProtoSpawn
    \/ ProtoPostFails
    \/ ProtoEnd
    \/ Sweep
    \/ Tick

\* ------------------------------------------------------------- turn texts
\* the stream of an invocation without choice prompt whose platform calls
\* succeed, with the runs of its text-only events
PlainContents == {c \in Contents : \A i \in 1..Len(c) : c[i].name # "AskUserQuestion"}

TurnInit == runs = <<>>

\* an assistant event: a text-only event with text opens a run or continues
\* the run in progress, an event with tool blocks ends it
TurnAssistant(content) ==
    /\ ConsumeAssistant(content)
    /\ runs' = IF Len(ToolBlocks(content)) > 0 \/ extractText(content) = <<>>
               THEN runs
               ELSE IF turnTexts # <<>>
               THEN [runs EXCEPT ![Len(runs)] =
                        [last |-> eventCount + 1, text |-> extractText(content)]]
               ELSE Append(runs, [last |-> eventCount + 1,
                                  text |-> extractText(content)])
    /\ UNCHANGED notStreamTurn

TurnNext ==
    \/ AddThinkingReaction(TRUE)
    \/ \E content \in PlainContents : TurnAssistant(content)
    \/ UserEvent
    \/ \E result \in ResultTexts, cost \in {0, 1} : ResultEvent(result, cost)
    \/ \E code \in ExitCodes, err \in BOOLEAN : Finalize(code, err)

\* --------------------------------------------------------------- reactions
\* the reactions handleMessage puts on the user's message, for one
\* invocation per thread that has entered the stream loop; a reaction call
\* fails when the platform answers with an error other than already_reacted
\* or no_reaction
InProgress == "hourglass_flowing_sand"
Terminal == {"white_check_mark", "question", "x"}

ReactInit ==
    /\ reactPhase = [t \in Threads |-> "streaming"]
    /\ reactions = [t \in Threads |-> {InProgress}]
    /\ reactAsked = [t \in Threads |-> FALSE]

\* the stream ends and the live message is edited
ReactStreamEnds(t, asked) ==
    /\ reactPhase[t] = "streaming"
    /\ reactPhase' = [reactPhase EXCEPT ![t] = "finalRemove"]
    /\ reactAsked' = [reactAsked EXCEPT ![t] = asked]
    /\ UNCHANGED reactions
    /\ UNCHANGED notReact

\* an await of the stream loop throws
ReactStreamThrows(t) ==
    /\ reactPhase[t] = "streaming"
    /\ reactPhase' = [reactPhase EXCEPT ![t] = "catchRemove"]
    /\ UNCHANGED <<reactions, reactAsked>>
    /\ UNCHANGED notReact

\* finalize: await removeReaction(channel, ts, 'hourglass_flowing_sand')
FinalRemove(t, ok) ==
    /\ reactPhase[t] = "finalRemove"
    /\ reactPhase' = [reactPhase EXCEPT ![t] = IF ok THEN "finalAdd" ELSE "catchRemove"]
    /\ reactions' = IF ok THEN [reactions EXCEPT ![t] = @ \ {InProgress}]
                    ELSE reactions
    /\ UNCHANGED reactAsked
    /\ UNCHANGED notReact

\* finalize: await addReaction(channel, ts, 'question' or 'white_check_mark')
FinalAdd(t, ok) ==
    /\ reactPhase[t] = "finalAdd"
    /\ reactPhase' = [reactPhase EXCEPT ![t] = IF ok THEN "finalized" ELSE "catchRemove"]
    /\ reactions' = IF ok
                    THEN [reactions EXCEPT ![t] = @ \cup
                             {IF reactAsked[t] THEN "question" ELSE "white_check_mark"}]
                    ELSE reactions
    /\ UNCHANGED reactAsked
    /\ UNCHANGED notReact

\* the rest of the try block, the upload of generated files and recordUsage:
\* it runs to its end or throws
AfterFinalize(t, ok) ==
    /\ reactPhase[t] = "finalized"
    /\ reactPhase' = [reactPhase EXCEPT ![t] = IF ok THEN "done" ELSE "catchRemove"]
    /\ UNCHANGED <<reactions, reactAsked>>
    /\ UNCHANGED notReact

\* catch: the error text is flushed, then
\* await removeReaction(channel, ts, 'hourglass_flowing_sand'); when the
\* call fails the exception leaves handleMessage
CatchRemove(t, ok) ==
    /\ reactPhase[t] = "catchRemove"
    /\ reactPhase' = [reactPhase EXCEPT ![t] = IF ok THEN "catchAdd" ELSE "thrown"]
    /\ reactions' = IF ok THEN [reactions EXCEPT ![t] = @ \ {InProgress}]
                    ELSE reactions
    /\ UNCHANGED reactAsked
    /\ UNCHANGED notReact

\* catch: await addReaction(channel, ts, 'x')
CatchAdd(t, ok) ==
    /\ reactPhase[t] = "catchAdd"
    /\ reactPhase' = [reactPhase EXCEPT ![t] = IF ok THEN "done" ELSE "thrown"]
    /\ reactions' = IF ok THEN [reactions EXCEPT ![t] = @ \cup {"x"}]
                    ELSE reactions
    /\ UNCHANGED reactAsked
    /\ UNCHANGED notReact

ReactNext ==
    \/ \E t \in Threads, asked \in BOOLEAN : ReactStreamEnds(t, asked)
    \/ \E t \in Threads : ReactStreamThrows(t)
    \/ \E t \in Threads, ok \in BOOLEAN : FinalRemove(t, ok)
    \/ \E t \in Threads, ok \in BOOLEAN : FinalAdd(t, ok)
    \/ \E t \in Threads, ok \in BOOLEAN : AfterFinalize(t, ok)
    \/ \E t \in Threads, ok \in BOOLEAN : CatchRemove(t, ok)
    \/ \E t \in Threads, ok \in BOOLEAN : CatchAdd(t, ok)

Init ==
    /\ RegInit /\ UpdInit /\ PromptInit /\ StreamInit /\ SplitIdle /\ FrameInit
    /\ EditInit /\ IoInit /\ WatchInit /\ GateIdle
    /\ RateInit
    /\ ProtoInit
    /\ TurnInit
    /\ ReactInit

Spec == Init /\ [][RegNext]_vars

SpecUpdater == Init /\ [][UpdNext]_vars

SpecPrompt == Init /\ [][PromptNext]_vars

SpecStream == Init /\ [][StreamNext]_vars

SplitInit ==
    /\ RegInit /\ UpdInit /\ PromptInit /\ StreamInit /\ SplitDraw /\ FrameInit
    /\ EditInit /\ IoInit /\ WatchInit /\ GateIdle
    /\ RateInit
    /\ ProtoInit
    /\ TurnInit
    /\ ReactInit

SpecSplit == SplitInit /\ [][SplitNext]_vars

SpecFrame == Init /\ [][FrameNext]_vars

SpecEdit == Init /\ [][EditNext]_vars

SpecIO == Init /\ [][IoNext]_vars

SpecWatch == Init /\ [][WatchNext]_vars

GateInit ==
    /\ RegInit /\ UpdInit /\ PromptInit /\ StreamInit /\ SplitIdle /\ FrameInit
    /\ EditInit /\ IoInit /\ WatchInit /\ GateDraw
    /\ RateInit
    /\ ProtoInit
    /\ TurnInit
    /\ ReactInit

SpecGate == GateInit /\ [][GateNext]_vars

SpecRate == Init /\ [][RateNext]_vars

SpecProto == Init /\ [][ProtoNext]_vars

SpecTurns == Init /\ [][TurnNext]_vars

SpecReact == Init /\ [][ReactNext]_vars

\* one thread of the bridge: its messages, its prompts, the clicks on them
\* and the hourly sweep
BridgeThread == "C1:100"
BridgeHandler == "h1"
BridgeQuestions == {1, 2}
BridgePrompts == {2, 3}

BridgeNext ==
    \/ \E u \in Users : InboundMessage(BridgeHandler, BridgeThread, u)
    \/ RejectedMessage(BridgeThread)
    \/ InvocationDone(BridgeHandler)
    \/ \E n \in BridgePrompts : PostPrompt(BridgeThread, n)
    \/ \E q \in BridgeQuestions, l \in Labels : ClickOption(BridgeThread, q, l)
    \/ ClickSubmit(BridgeThread)
    \/ Sweep
    \/ Tick

SpecBridge == Init /\ [][BridgeNext]_vars

\* ------------------------------------------------------- prompt properties
\* the entries `Qn: label` of the questions answered, by ascending n
RECURSIVE ExpectedEntries(_, _)
ExpectedEntries(answers, qs) ==
    IF qs = {} THEN <<>>
    ELSE LET q == CHOOSE x \in qs : \A y \in qs : x <= y
             rest == ExpectedEntries(answers, qs \ {q}) IN
         IF answers[q] = NoLabel THEN rest
         ELSE <<ButtonValue(q - 1, answers[q])>> \o rest

\* C7: the text submitted holds one entry per answered question, ordered
\* by question number, each with the label selected last.
AnswerAggregation ==
    (lastAction.kind = "submit"
       /\ \E q \in ClickedQuestions : chosenAtSubmit[q] # NoLabel) =>
          lastAction.text = JoinLines(ExpectedEntries(chosenAtSubmit, ClickedQuestions))

\* C8: a click on an option of a prompt with exactly one question (which has
\* no Submit button) feeds the answer in as a new inbound message at once.
ImplicitSubmission ==
    /\ \A n \in 1..MaxQuestions : HasSubmitButton(n) <=> n > 1
    /\ (lastAction.kind = "option" /\ lastAction.questionCount = 1) =>
          lastAction.injected

\* ------------------------------------------------------- stream properties
\* C1: the messages of the thread appear in the order in which the
\* subprocess produced the segments they carry: the text of an event is
\* posted before the notice of a tool invocation of a later event.
TurnFlushOrder ==
    \A i, j \in 1..Len(thread) : i < j => thread[i].src <= thread[j].src

\* C9: however often the AskUserQuestion invocation is observed in one
\* stream, in one event or in several, the prompt is rendered once.
PromptRenderedOnce ==
    askSeen >= 1 =>
       Cardinality({i \in 1..Len(thread) : thread[i].kind = "prompt"}) = 1

\* the handler has returned or thrown
Ended == spc \in {"done", "failed", "thrown"}

\* C12: once the live status message exists, the invocation never ends with
\* the message still showing the initial processing text, whatever the
\* outcome of the stream and of the platform calls.
TerminalVisibleState == Ended => liveText # "processing"

\* C13: when the subprocess exited with a non-zero code or wrote to stderr,
\* the invocation ends with the live message showing the error marker.
SubprocessFailureVisible ==
    (spc \in {"done", "failed"} /\ (exitCode # 0 \/ stderrSeen)) =>
        liveText = "error"

\* C14: after any run of text events of one turn the pending turn text is
\* the text of the most recent of them, never several texts put together.
ReplaceNotAppend ==
    turnTexts # <<>> => currentTurnText = turnTexts[Len(turnTexts)]

\* two text events with different texts arrived in one turn
ReplaceNotAppendWitness ==
    /\ Len(turnTexts) >= 2
    /\ turnTexts[Len(turnTexts) - 1] # turnTexts[Len(turnTexts)]
    /\ currentTurnText = <<"b">>

\* C15: a text event received while no prompt is pending puts its text into
\* the pending buffer of the message updater, from where a debounced edit
\* shows it in the live status message.
StreamingUpdate ==
    (turnTexts # <<>> /\ ~askedQuestions) =>
        pendingText = turnTexts[Len(turnTexts)]

\* C16: the text pending when a user event arrives is in the thread before
\* any message caused by a later event of the stream.
UserBoundaryFlush ==
    userBoundary # NoBoundary =>
       \A j \in 1..Len(thread) :
          thread[j].src > userBoundary.at =>
             \E i \in 1..(j - 1) :
                thread[i].kind = "text" /\ thread[i].src = userBoundary.src

\* C17: a result event sets the cost when it carries one, and its text
\* becomes the turn text exactly when no text was captured before and the
\* event carries a text; captured text is never overwritten.
TerminalResult ==
    [][\A result \in ResultTexts, cost \in {0, 1} :
          ResultEvent(result, cost) =>
             /\ (cost # 0 => costUsd' = cost)
             /\ (cost = 0 => costUsd' = costUsd)
             /\ (currentTurnText = <<>> /\ result # <<>>)
                   => currentTurnText' = result
             /\ ~(currentTurnText = <<>> /\ result # <<>>)
                   => currentTurnText' = currentTurnText
      ]_vars

\* a result event that carries a text arrived after text was captured from
\* an assistant event
TerminalResultWitness ==
    /\ lastEvent = [kind |-> "result", text |-> <<"b">>]
    /\ currentTurnText = <<"a">>
    /\ costUsd = 1

\* C18: once a prompt was posted no text message follows it in the thread,
\* and the invocation that ends normally shows the waiting marker.
PromptSuppressesText ==
    /\ \A i, j \in 1..Len(thread) :
          (i < j /\ thread[i].kind = "prompt") => thread[j].kind # "text"
    /\ (askedQuestions /\ spc = "done") => liveText = "waiting"
    /\ askedQuestions => liveText \in {"processing", "waiting", "error"}

\* a text event arrived after the prompt was posted, a turn text was pending
\* then, and the invocation ended
PromptSuppressesTextWitness ==
    /\ askedQuestions /\ spc = "done"
    /\ lastEvent = [kind |-> "assistant", text |-> <<"b">>]
    /\ currentTurnText = <<"a">>
    /\ lastEventWasTool
    /\ \E i \in 1..Len(thread) : thread[i].kind = "prompt"

\* ------------------------------------------------------ framing properties
\* the lines of the output seen so far that are complete, and the
\* unterminated last line once the output has ended
LinesSeen ==
    LET lines == SplitLines(received) IN
    IF fpc = "ended" THEN lines ELSE SubSeq(lines, 1, Len(lines) - 1)

\* one event for every line that is not blank and parses as an event
RECURSIVE EventsOf(_)
EventsOf(lines) ==
    IF Len(lines) = 0 THEN <<>>
    ELSE (IF Trim(Head(lines)) = <<"{", "}">> THEN <<"event">> ELSE <<>>)
         \o EventsOf(Tail(lines))

\* C19: however the output is cut into chunks, what the generator yields
\* is one event for each non-blank line that parses as an event, in the
\* order of the lines; every other line is skipped, and the last line needs
\* no newline.
StreamFraming == yielded = EventsOf(LinesSeen)

\* -------------------------------------------------------- split properties
\* C10: no chunk splitForSlack returns is longer than maxLength, so no
\* message finalize posts for an over-long answer is.
ChunkLengthBound ==
    /\ LET result == splitForSlack(splitText, splitMax) IN
       \A i \in 1..Len(result) : Len(result[i]) <= splitMax
    /\ \A i \in 1..Len(posted) : Len(posted[i]) <= splitMax

\* an answer was split into several chunks, each of them posted, one of
\* them as long as the limit
ChunkLengthBoundWitness ==
    /\ Len(chunks) >= 2
    /\ Len(posted) = Len(chunks)
    /\ \E i \in 1..Len(posted) : Len(posted[i]) = splitMax /\ splitMax >= 2

\* chunks.join(''): the chunks put together again, in order
RECURSIVE ConcatChunks(_)
ConcatChunks(list) ==
    IF Len(list) = 0 THEN <<>> ELSE Head(list) \o ConcatChunks(Tail(list))

\* C11: the chunks of a text longer than the limit, concatenated in order,
\* give the original text back: no character is lost or reordered.
SplitRoundTrip ==
    Len(chunks) >= 1 => ConcatChunks(chunks) = splitText

\* ------------------------------------------------------ updater properties
\* nothing is scheduled and no chat.update call is outstanding
UpdaterIdle == scheduled = {} /\ inflight = {} /\ updateTimer = NoTimer

\* C5: the onTextUpdate calls that arrive within one debounce interval
\* (less than minInterval after the last edit) result in exactly one edit
\* of the live message, carrying the text of the last of them.
DebounceCoalescing ==
    (updPhase = "streaming" /\ UpdaterIdle /\ wCalls >= 1 /\ ~wLate) =>
       (wSent = 1 /\ wSentText = callText)

\* C6: two successive chat.update calls of one MessageUpdater are at least
\* minInterval apart.
DebounceRateLimit ==
    editCount >= 2 => lastSentAt - prevSentAt >= MinInterval

\* ------------------------------------------------------ registry properties
\* the sessions whose last activity is older than now - maxIdleDuration
Idle == {m \in sessionsFile : m.lastActivity < now - MaxAgeHours}

\* cleanupOldSessions leaves exactly the sessions that are not idle, each as
\* it was, and returns the number of idle ones
SweepResult ==
    /\ cleanupOldSessions(sessionsFile, now, MaxAgeHours) = sessionsFile \ Idle
    /\ cleanupOldSessionsResult(sessionsFile, now, MaxAgeHours)
          = Cardinality(Idle)

\* a sweep removes the idle sessions and no other
SweepStep == Sweep => sessionsFile' = sessionsFile \ Idle

\* C20: a sweep removes exactly the sessions whose last activity is older
\* than now - maxIdleDuration, leaves every other session as it was, and
\* returns the number of sessions it removed.
IdleEviction == []SweepResult /\ [][SweepStep]_vars

\* a sweep has removed a session, while a session whose last activity lies
\* exactly maxIdleDuration back is in the registry
IdleEvictionWitness ==
    /\ \E k \in Threads : evicted[k] > 0 /\ ~HasKey(sessionsFile, k)
    /\ \E m \in sessionsFile : m.lastActivity = now - MaxAgeHours

\* C2: of all getOrCreateSession calls for one threadKey (with no eviction
\* of the thread between them) exactly one creates a session and returns
\* isNew = true, and every caller gets the sessionId that call created.
SessionUniqueness ==
    /\ \A k \in Threads : newCount[k] <= 1
    /\ \A h \in HandlerIds : Holds(h) =>
          /\ newCount[hthread[h]] = 1
          /\ hsession[h] = created[hthread[h]]
    /\ \A h1, h2 \in HandlerIds :
          (h1 # h2 /\ Holds(h1) /\ Holds(h2) /\ hthread[h1] = hthread[h2]) =>
             /\ hsession[h1] = hsession[h2]
             /\ ~(hisNew[h1] /\ hisNew[h2])

\* two handler tasks are in flight for the same thread, one created the
\* session and the other found it
SessionUniquenessWitness ==
    \E h1, h2 \in HandlerIds :
       /\ h1 # h2 /\ Holds(h1) /\ Holds(h2) /\ hthread[h1] = hthread[h2]
       /\ hisNew[h1] /\ ~hisNew[h2]

OneSessionPerThread ==
    \A k \in Threads : Cardinality({m \in sessionsFile : m.key = k}) <= 1

ResumesAfterFailure ==
    \A h \in HandlerIds : (Holds(h) /\ hafterFail[h]) =>
       ~hisNew[h] /\ hsession[h] = created[hthread[h]]

SessionIdStep ==
    \A k \in Threads : HasKey(sessionsFile, k) =>
       IF HasKey(sessionsFile', k)
       THEN \A m \in sessionsFile, n \in sessionsFile' :
               (m.key = k /\ n.key = k) => n.sessionId = m.sessionId
       ELSE Lookup(sessionsFile, k).lastActivity < now - MaxAgeHours

\* C3: the registry holds at most one session per threadKey; an entry
\* keeps its sessionId in every step and disappears only when it is idle
\* beyond the limit; a message that follows a failed invocation of the
\* thread resolves to the session created before.
SessionIdImmutable ==
    /\ []OneSessionPerThread
    /\ []ResumesAfterFailure
    /\ [][SessionIdStep]_vars

\* a handler resolved the session of a thread whose earlier invocation failed
SessionIdImmutableWitness ==
    \E h \in HandlerIds :
       Holds(h) /\ hafterFail[h] /\ ~hisNew[h] /\ HasKey(sessionsFile, hthread[h])

\* C4: a getOrCreateSession call made after a restart, for a thread whose
\* session was created before the restart and not evicted since, returns
\* that sessionId with isNew = false.
ResumeAcrossRestart ==
    \A h \in HandlerIds : (Holds(h) /\ hafterRestart[h]) =>
       ~hisNew[h] /\ hsession[h] = created[hthread[h]]

\* a handler of the restarted process resumed a session of the old process
ResumeAcrossRestartWitness ==
    \E h \in HandlerIds :
       Holds(h) /\ hafterRestart[h] /\ epoch > 0 /\ hsession[h] # NoSession


\* ----------------------------------------------- thread and prompt properties
\* an option click or a rejected message of thread k is handled in this step
RecordedOrRejected(k) ==
    \/ RejectedMessage(k)
    \/ \E q \in ClickedQuestions, l \in Labels : ClickOption(k, q, l)

\* C21: every inbound event of a thread after the one that created its
\* session, also an option click that is only recorded and a message that is
\* rejected, sets the session's lastActivity to the time of the event.
ActivityOnEveryEvent ==
    [][\A k \in Threads :
          (RecordedOrRejected(k) /\ HasKey(sessionsFile, k)) =>
              /\ HasKey(sessionsFile', k)
              /\ Lookup(sessionsFile', k).lastActivity = now]_vars

\* the entries that the labels in `answers` stand for
EntriesOf(answers) ==
    {ButtonValue(q - 1, answers[q]) :
        q \in {x \in ClickedQuestions : answers[x] # NoLabel}}

\* the entries a list of selections holds
Held(selections) == {selections[i] : i \in 1..Len(selections)}

\* C22: the pending selections of a thread hold at most one entry per
\* question; the entry of a question carries the label selected last for it
\* and the entries of the other questions stay as they were.
OneLabelPerQuestion ==
    \A k \in Threads :
        LET sel == pendingSelections[k] IN
        /\ \A i, j \in 1..Len(sel) : i # j => QNumOf(sel[i]) # QNumOf(sel[j])
        /\ Held(sel) = EntriesOf(chosen[k])

\* questions 1 and 10 are both answered, question 1 after question 10, and
\* more options were clicked than entries are held
OneLabelPerQuestionWitness ==
    \E k \in Threads, l1, l2 \in Labels :
        /\ pendingSelections[k] = <<ButtonValue(MaxQuestions - 1, l1), ButtonValue(0, l2)>>
        /\ clickCount > 2
        /\ lastAction.kind = "option"
        /\ lastAction.thread = k
        /\ \A o \in Threads \ {k} : pendingSelections[o] = <<>>

\* a run of the Submit branch: it empties the thread's entry and hands the
\* answers recorded until then to handleMessage
SubmitStep ==
    (clickCount' # clickCount /\ lastAction'.kind = "submit") =>
        LET k == lastAction'.thread IN
        /\ pendingSelections'[k] = <<>>
        /\ lastAction'.injected
        /\ lastAction'.text = AnswersText(pendingSelections[k])
        /\ \A o \in Threads \ {k} : pendingSelections'[o] = pendingSelections[o]

\* every selection held was made after the last Submit of its thread
SelectionsAfterSubmit ==
    \A k \in Threads : Held(pendingSelections[k]) \subseteq EntriesOf(chosen[k])

Evicted(k) == HasKey(sessionsFile, k) /\ ~HasKey(sessionsFile', k)

\* C25: when the sweep removes the session of a thread, no pending
\* selections stay stored for the thread.
PendingClearedOnEviction ==
    [][Sweep => \A k \in Threads : Evicted(k) => pendingSelections'[k] = <<>>]_vars

\* C26: the answers submitted hold the selections made since the last
\* message of the thread and no selection recorded before it.
PendingAbandonedOnMessage ==
    lastAction.kind = "submit" =>
        lastAction.text =
            IF EntriesOf(chosenAtSubmit) = {} THEN NoSelectionsText
            ELSE JoinLines(SortStrings(ExpectedEntries(chosenAtSubmit, ClickedQuestions)))


\* the prompt with the given questions is among the messages of the thread
Rendered(messages, input) ==
    \E i \in 1..Len(messages) :
        messages[i].kind = "prompt" /\ messages[i].prompt = input

\* the handling of an assistant event leaves every prompt of the event
\* rendered: one that was not rendered before in the stream is posted
PromptStep ==
    \A content \in Contents :
        AssistantEvent(content) =>
            \A i \in 1..Len(content) :
                IsPrompt(content[i]) => Rendered(thread', content[i].input)

\* C24: a prompt is suppressed only when the same prompt was rendered
\* earlier in the stream; a prompt that differs from those rendered so far
\* in the stream is rendered.
SuppressionScope == [][PromptStep]_vars


PlainTools(content) ==
    SelectSeq(content, LAMBDA b : b.type = "tool_use" /\ b.name # "AskUserQuestion")

\* the messages about such blocks among the given messages
PlainToolPosts(messages) ==
    SelectSeq(messages, LAMBDA m : m.kind = "tool" /\ m.name # "AskUserQuestion")

\* the handling of an assistant event adds one thread message per tool
\* block that is no prompt, in block order, and edits nothing
ToolStep ==
    \A content \in Contents :
        AssistantEvent(content) =>
            LET added == SubSeq(thread', Len(thread) + 1, Len(thread'))
                posts == PlainToolPosts(added)
                tools == PlainTools(content) IN
            /\ SubSeq(thread', 1, Len(thread)) = thread
            /\ Len(posts) = Len(tools)
            /\ \A i \in 1..Len(posts) :
                  posts[i].name = tools[i].name /\ posts[i].src = eventCount'
            /\ liveText' = liveText
            /\ UNCHANGED updVars

\* C28: every tool block of an assistant event that is no choice prompt
\* yields exactly one new thread message while the event is handled, in
\* block order; the live message is not edited and the updater is not used.
DiscreteToolActivity == [][ToolStep]_vars

\* the thread holds the messages of two tool blocks of one event, in block
\* order, after messages of an earlier event
DiscreteToolActivityWitness ==
    \E i \in 2..Len(thread) :
        /\ i < Len(thread)
        /\ thread[i].kind = "tool" /\ thread[i].name = "Read"
        /\ thread[i + 1].kind = "tool" /\ thread[i + 1].name = "Bash"
        /\ thread[i].src = thread[i + 1].src
        /\ thread[i - 1].src < thread[i].src


\* ------------------------------------------------------ finalize properties
\* C29: of a final text longer than the limit, the first chunk is written
\* into the live status message and the other chunks are posted as new
\* messages of the thread, in chunk order.
FirstChunkEditsLive ==
    Len(chunks) >= 2 =>
        /\ splitLive = chunks[1]
        /\ Len(posted) <= Len(chunks) - 1
        /\ \A i \in 1..Len(posted) : posted[i] = chunks[i + 1]


\* ------------------------------------------------ updateMessage properties
\* C30: when the platform rejects an edit as too long, updateMessage sends
\* the edit once more, with the text cut to the safe limit and the marker
\* appended, and returns when that edit is accepted; after any other error
\* it sends nothing more and throws that error.
LengthRejectionFallback ==
    /\ Len(usent) <= 2
    /\ (Len(usent) = 2) <=> IsTooLong(ufirst)
    /\ Len(usent) = 2 =>
          LET cut == IF Len(utext) < SafeLimit THEN Len(utext) ELSE SafeLimit IN
          /\ Len(usent[2]) = cut + Len(TruncationMarker)
          /\ \A i \in 1..cut : usent[2][i] = utext[i]
          /\ SubSeq(usent[2], cut + 1, Len(usent[2])) = TruncationMarker
    /\ (ufirst \in PlatformErrors /\ ~IsTooLong(ufirst)) =>
          upc = "thrown" /\ uerror = ufirst
    /\ (upc = "returned") <=>
          (ufirst = "ok" \/ (IsTooLong(ufirst) /\ upc # "retry" /\ uerror = "none"))

\* an edit of a text longer than the safe limit was rejected as too long
\* and the cut text was accepted
LengthRejectionFallbackWitness ==
    /\ upc = "returned"
    /\ Len(utext) > SafeLimit
    /\ Len(usent) = 2
    /\ Len(usent[2]) < Len(utext) + Len(TruncationMarker)


\* ------------------------------------------------- registry I/O properties
\* what an operation run in this step returns when its read or write fails
\* (the operation is recognised by the result record it leaves)
IoStep ==
    /\ \A k \in Threads, u \in Users, rd, wr \in BOOLEAN :
          (ioResult'.op = "resolve" /\ ioResult'.key = k
           /\ ioResult'.readOk = rd /\ ioResult'.writeOk = wr
           /\ ResolveIO(k, u, rd, wr)) =>
             /\ ~ioResult'.threw
             /\ ~rd => (ioResult'.isNew /\ ioResult'.sessionId = uuidCount + 1
                        /\ \A m \in sessionsFile : m.sessionId # ioResult'.sessionId)
    /\ \A k \in Threads, rd, wr \in BOOLEAN :
          (ioResult'.op = "touch" /\ ioResult'.key = k
           /\ ioResult'.readOk = rd /\ ioResult'.writeOk = wr
           /\ TouchIO(k, rd, wr)) =>
             /\ ~ioResult'.threw
             /\ (~rd \/ ~wr) => sessionsFile' = sessionsFile
    /\ \A sid \in 1..MaxUuid, rd \in BOOLEAN :
          (ioResult'.op = "find" /\ ioResult'.sessionId = sid
           /\ ioResult'.readOk = rd /\ FindIO(sid, rd)) =>
             /\ ~ioResult'.threw
             /\ ~rd => ioResult'.key = NoMapping.key
    /\ \A rd, wr \in BOOLEAN :
          (ioResult'.op = "sweep"
           /\ ioResult'.readOk = rd /\ ioResult'.writeOk = wr
           /\ SweepIO(rd, wr)) =>
             /\ ~ioResult'.threw
             /\ ioResult'.count = IF rd THEN Cardinality(Idle) ELSE 0
             /\ (~rd \/ ~wr) => sessionsFile' = sessionsFile

\* C31: no registry operation lets a file error out: with a failed read it
\* behaves as on an empty registry (resolve returns a fresh session with
\* isNew), a failed write is swallowed and the sweep still returns its count.
IoErrorsContained == [](~ioResult.threw) /\ [][IoStep]_vars

\* a sweep has counted an expired session although its write failed
IoErrorsContainedWitness ==
    /\ ioResult.op = "sweep"
    /\ ioResult.readOk /\ ~ioResult.writeOk
    /\ ioResult.count > 0
    /\ ~ioResult.threw

\* a resolve of a thread whose session the process holds returns that
\* session again
ResolveHeldStep ==
    \A k \in Threads, u \in Users, wr \in BOOLEAN :
        (ResolveIO(k, u, TRUE, wr) /\ held[k] # NoSession) =>
            (ioResult'.sessionId = held[k] /\ ~ioResult'.isNew)

\* C32: a session resolve has created stays in effect for the running
\* process when the write fails: the next resolve of the thread returns the
\* same sessionId with isNew = false.
WriteErrorKeepsState == [][ResolveHeldStep]_vars


\* the threads whose registered session has the given sessionId
Owners(sid) == {k \in Threads : created[k] = sid}

\* C33: getSessionBySessionId(s) returns the session registered with
\* sessionId s and null when there is none (never registered, or evicted);
\* a send carrying s is posted to that session's thread, and for an unknown
\* s nothing is posted and the answer is not-found.
ReverseLookup ==
    \A sid \in 1..MaxUuid :
        LET found == getSessionBySessionId(sessionsFile, sid) IN
        IF Owners(sid) = {}
        THEN /\ found = NoMapping
             /\ \A ok \in BOOLEAN :
                   handleSendMessage(sessionsFile, sid, ok) =
                      [status |-> "404", thread |-> "none"]
        ELSE /\ Owners(sid) = {found.key}
             /\ found.sessionId = sid
             /\ handleSendMessage(sessionsFile, sid, TRUE) =
                   [status |-> "200", thread |-> found.key]
             /\ handleSendMessage(sessionsFile, sid, FALSE).thread = found.key

\* the session of one thread was evicted, the other thread has a session
\* and the last lookup found that thread
ReverseLookupWitness ==
    \E k, o \in Threads :
        /\ evicted[k] > 0 /\ created[k] = NoSession
        /\ created[o] # NoSession
        /\ lookupResult = o

\* ------------------------------------------------------ watcher properties
\* a step of the invocation running for thread t
InvocationStep(t) ==
    \/ WatchActivate(t)
    \/ WatchDeactivate(t)
    \/ WatchUpload(t)
    \/ WatchFail(t)
    \/ WatchFinally(t)

IsolationStep ==
    \A t, u \in Threads :
        (t # u /\ wpc[u] \in InFlight /\ InvocationStep(t))
            => /\ activeSession' = activeSession
               /\ pendingFilesQueue' = pendingFilesQueue

\* C34: thread isolation: no step of one thread's invocation (its error and
\* cleanup paths included) changes the state read for another thread's
\* in-flight invocation, and every file an invocation uploads was written by
\* its own subprocess and is attributed to its own thread
ThreadIsolation ==
    /\ [](\A t \in Threads : \A i \in 1..Len(uploads[t]) :
              /\ uploads[t][i].thread = t
              /\ writer[uploads[t][i].file] = t)
    /\ [][IsolationStep]_vars

\* ------------------------------------------------------- intake properties
\* C35: access control: with a non-empty allowed-users list, no event of a
\* user outside the list (direct message, channel message, mention or click
\* on a rendered control) leads to an invocation or to a bridge message
AccessControl ==
    allowedUsers # {} =>
        /\ \A e \in invoked : e.user \in allowedUsers
        /\ \A p \in bridgePosts : p.user \in allowedUsers

\* --------------------------------------------------- rate limit properties
\* the inbound messages whose invocation started in clock hour h
StartedIn(h) == {r \in Requests : startHour[r] = h}

\* C36: team-mode rate limit: in every clock hour at most requestsPerHour
\* invocations are started for the channel and in every day at most
\* requestsPerDay; a request over the limit creates no session and starts no
\* invocation
RateLimitHolds ==
    /\ \A h \in Hours : Cardinality(StartedIn(h)) <= RequestsPerHour
    /\ \A d \in Days :
           Cardinality(UNION {StartedIn(h) : h \in {x \in Hours : DayOf(x) = d}})
               <= RequestsPerDay
    /\ \A r \in Requests :
           rpc[r] = "limited" => (r \notin rateSessions /\ startHour[r] = NoHour)

\* ------------------------------------------------- new-or-resume properties
\* C37: new-or-resume protocol: every spawn that resumes sessionId S comes
\* after a spawn that started S with new-session semantics, and no sessionId
\* is started with new-session semantics twice
NewBeforeResume ==
    /\ \A i \in 1..Len(spawnLog) :
           spawnLog[i].mode = "resume" =>
               \E j \in 1..(i - 1) :
                   /\ spawnLog[j].mode = "new"
                   /\ spawnLog[j].sessionId = spawnLog[i].sessionId
    /\ \A i, j \in 1..Len(spawnLog) :
           (/\ i # j
            /\ spawnLog[i].mode = "new"
            /\ spawnLog[j].mode = "new")
               => spawnLog[i].sessionId # spawnLog[j].sessionId

\* ------------------------------------------------------- turn text properties
\* a run of text-only events as the thread message that carries it
RunPost(run) == [src |-> run.last, text |-> ProcessedText(run.text)]

\* the text messages of the thread that came from the last event of one of
\* the runs, in thread order
RunMessages ==
    LET own == SelectSeq(thread, LAMBDA p :
                   /\ p.kind = "text"
                   /\ \E i \in 1..Len(runs) : p.src = runs[i].last) IN
    [i \in 1..Len(own) |-> [src |-> own[i].src, text |-> own[i].text]]

FlushStep ==
    \E id \in 1..MaxTimers, due \in 0..(MaxClock + MinInterval) :
        TimerFire([id |-> id, due |-> due])

\* C39: no debounced flush lands after finalization: once the handler has
\* edited the live message with the final text, no flush scheduled earlier
\* by a text update edits that message, so that the finalization edit is
\* its last edit
NoFlushAfterFinalize ==
    [][(updPhase = "finalized" /\ FlushStep) => editCount' = editCount]_vars

\* ------------------------------------------------------ reaction properties
\* C40: exactly one terminal reaction: when an invocation that entered the
\* streaming stage has ended (handleMessage returned), the in-progress
\* reaction is gone from the user's message and exactly one of
\* white_check_mark, question and x is on it, also when an error occurred
\* after the answer was finalized
ExactlyOneTerminal ==
    \A t \in Threads :
        reactPhase[t] = "done" =>
            /\ InProgress \notin reactions[t]
            /\ Cardinality(reactions[t] \cap Terminal) = 1

====
